---- MODULE Spec2Model ----
(***************************************************************************)
(* sync_diff_inspector: the batch chunk pipeline of diff.go (Equal,        *)
(* consume, writeSQLs, handleCheckpoints, initCheckpoint), the bisector    *)
(* (BinGenerate / binSearch), the row reconciler (compareRows) and the     *)
(* stale fix-SQL purge (removeSQLFiles).                                   *)
(***************************************************************************)
EXTENDS Integers, Sequences, FiniteSets, TLC

(***************************************************************************)
(* State.                                                                  *)
(***************************************************************************)
\* the row reconciler
VARIABLES rUp, rDown, rFail, rRes, rFixed, rRes2, rpc

rowVars == <<rUp, rDown, rFail, rRes, rFixed, rRes2, rpc>>

\* the batch pipeline
VARIABLES
    exportFixSQL,   \* df.exportFixSQL
    pathHasTrash,   \* the fix-SQL paths (FixSQLDir, schema, table) contain ".trash"
    pc,             \* where Equal is
    nextChunk,      \* the chunk chunksIter.Next yields next
    task,           \* each chunk's task in the pool
    dmlOf,          \* what a task blocked in its deferred send built (dml) and saw (ck)
    hasSqls,        \* the chunks whose latest ChunkDML on sqlCh had non-empty sqls
    sqlCh,          \* df.sqlCh: each ChunkDML with what its task observed
    chClosed,       \* close(df.sqlCh) was executed
    wpc,            \* where writeSQLs is
    wdml,           \* the ChunkDML writeSQLs holds
    files,          \* FixSQLDir: each chunk's fix-SQL file
    trash,          \* the chunks whose file was moved to a .trash directory
    heap,           \* checkpoint store: pending nodes
    inserted,       \* the ChunkIDs df.cp.Insert was called with in this run
    current,        \* checkpoint store: ChunkID of the last node handed out
    cpFile,         \* the node in sync_diff_checkpoints.pb, Nil when no file
    cppc,           \* where handleCheckpoints is
    stopSent,       \* the send on stopCh completed
    cancelled,      \* ctx is done
    fatal,          \* why the process died, "no" while it lives
    restarts,       \* how often the process was killed and started again
    startRange,     \* df.startRange as a ChunkID, 0 when nil
    deferLog        \* the steps of Equal's deferred block that completed

pipeVars == <<exportFixSQL, pathHasTrash, pc, nextChunk, task, dmlOf, hasSqls, sqlCh, chClosed,
              wpc, wdml, files, trash, heap, inserted, current, cpFile, cppc, stopSent,
              cancelled, fatal, restarts, startRange, deferLog>>

\* the bisector
VARIABLES
    bWork,      \* df.workSource: "up" or "down"
    bIndex,     \* the index BinGenerate finds for tableRange.IndexID
    bUp,        \* the upstream table
    bDown,      \* the downstream table
    bLo, bHi,   \* tableRange
    bCount,     \* count
    bMid,       \* midValues
    bR1, bR2,   \* the checksum results of tableRange1 and tableRange2
    bpc,        \* where the task is
    bRes,       \* the range BinGenerate returned, Nil while it has not
    bChunk,     \* rangeInfo, the chunk consume was given
    bInfo,      \* info, the range consume hands to compareRows, Nil before
    bWritten    \* whether the upstream was written to since consume began

binVars == <<bWork, bIndex, bUp, bDown, bLo, bHi, bCount, bMid, bR1, bR2, bpc, bRes,
             bChunk, bInfo, bWritten>>

\* the stale-file purge
VARIABLES
    pFiles,     \* the regular files under FixSQLDir, as relative paths
    pBefore,    \* pFiles when removeSQLFiles was called
    pFloor,     \* checkPointId
    pErr,       \* removeSQLFiles returned an error
    ppc

purgeVars == <<pFiles, pBefore, pFloor, pErr, ppc>>

\* continuous validation
VARIABLES
    pkOffset,       \* table.ColumnMap[pk column].Offset of the single primary-key column
    useBinlog,      \* df.cfg.UseBinlogForCompare
    cUp,            \* the upstream table
    cDown,          \* the downstream table
    binlog,         \* the row events of the upstream binlog, oldest first
    synced,         \* how many events of binlog the downstream has applied
    streamed,       \* how many events of binlog GetEvent has returned
    ipc,            \* where IncrementalValidate is
    iEvent,         \* the event IncrementalValidate holds, Nil when none
    apc,            \* where rowsEventProcessRoutine is
    aEvent,         \* the event processEventRows works on, Nil when none
    aIdx,           \* processEventRows: index into e.Rows of the next row
    accumulatedChanges, \* df.accumulatedChanges[table].rows
    timerFired,     \* a tick of df.validationTimer is waiting in its channel
    lastOf,         \* per key, the last row event of the open batch on that key (history)
    vpc,            \* where validateGoRoutine is
    vBatch,         \* the batch validateGoRoutine received, with what was accumulated into it
    failedChanges,  \* df.failedChanges[table].rows
    tpc,            \* where retryFailedRows is
    cCancelled,     \* the context of continuous validation is done
    cFatal          \* why the process died, "no" while it lives

contVars == <<pkOffset, useBinlog, cUp, cDown, binlog, synced, streamed, ipc, iEvent, apc, aEvent,
              aIdx, accumulatedChanges, timerFired, lastOf, vpc, vBatch, failedChanges, tpc,
              cCancelled, cFatal>>

\* the lock of the Diff aggregate and what it guards, statement by statement
VARIABLES
    dfMu,           \* df.RWMutex: the goroutine holding the writer lock, the holders of the reader lock
    lapc,           \* where rowsEventProcessRoutine is
    lAcc,           \* the keys of df.accumulatedChanges
    lvpc,           \* where validateGoRoutine is
    lChange,        \* validateGoRoutine: the keys of the batch it received
    lFailed,        \* validateGoRoutine: the keys validateTableChange returned
    ltpc,           \* where retryFailedRows is
    lFailedChanges, \* the keys of df.failedChanges
    pendingRowCnt,  \* df.pendingRowCnt
    failedRowCnt,   \* df.failedRowCnt
    lActor          \* the goroutine that took the last step (history)

lockVars == <<dfMu, lapc, lAcc, lvpc, lChange, lFailed, ltpc, lFailedChanges, pendingRowCnt,
              failedRowCnt, lActor>>

\* the ingest loop of IncrementalValidate against the clock and the log files
VARIABLES
    now,            \* time.Now(), in ticks
    gLog,           \* the events the upstream has logged, oldest first, over all its log files
    gFile,          \* the log file the upstream writes to
    gpc,            \* where the ingest loop is
    gEvent,         \* the event the loop holds, Nil when none
    gWake,          \* when the running time.Sleep ends
    latestPos,      \* latestPos: Name and Pos
    gStream,        \* binlogStreamer: what it was opened at and how far it has read
    gHandled,       \* gLog index of the last event the loop handled (history)
    gRouted,        \* the events sent on rowsEventChan, with the time of the send (history)
    gFatals,        \* fatal read errors so far
    gFails          \* failed StartSync calls so far

ingVars == <<now, gLog, gFile, gpc, gEvent, gWake, latestPos, gStream, gHandled, gRouted,
             gFatals, gFails>>

\* what the actions of one part leave alone
nonRowVars == <<pipeVars, binVars, purgeVars, contVars, lockVars, ingVars>>
nonPipeVars == <<rowVars, binVars, purgeVars, contVars, lockVars, ingVars>>
nonBinVars == <<pipeVars, rowVars, purgeVars, contVars, lockVars, ingVars>>
nonPurgeVars == <<pipeVars, rowVars, binVars, contVars, lockVars, ingVars>>
nonContVars == <<pipeVars, rowVars, binVars, purgeVars, lockVars, ingVars>>
nonLockVars == <<pipeVars, rowVars, binVars, purgeVars, contVars, ingVars>>
nonIngVars == <<pipeVars, rowVars, binVars, purgeVars, contVars, lockVars>>

\* what a validation pass of continuous validation leaves alone outside its
\* own part: everything but df.failedRowCnt
lockRestVars == <<dfMu, lapc, lAcc, lvpc, lChange, lFailed, ltpc, lFailedChanges, pendingRowCnt,
                  lActor>>
nonPassVars == <<pipeVars, rowVars, binVars, purgeVars, lockRestVars, ingVars>>

(***************************************************************************)
(* Bounds of the model.                                                    *)
(***************************************************************************)
\* number of chunks the range iterator yields for the whole run
NChunks == 2
\* cfg.CheckThreadCount: size of the "consumer" worker pool
CheckThreadCount == 2
\* capacity of sqlCh (splitter.DefaultChannelBuffer, scaled down)
DefaultChannelBuffer == 1
\* how many times the process is killed and started again
MaxRestarts == 1
\* largest order-key value of a row
MaxKey == 2
\* largest payload value of a row
MaxVal == 2

\* largest index-key value of the table the bisector works on
MaxBinKey == 3
\* splitter.SplitThreshold, scaled down
SplitThreshold == 1

Nil == [nil |-> TRUE]

(***************************************************************************)
(* Rows and the row reconciler.  A table is a function from order key to   *)
(* payload, 0 meaning that the key has no row; a row iterator yields the   *)
(* rows in order-key order.                                                *)
(***************************************************************************)
Keys == 1..MaxKey
Tables == [Keys -> 0..MaxVal]

RECURSIVE RowsFrom(_, _)
RowsFrom(T, k) ==
    IF k > MaxKey THEN <<>>
    ELSE IF T[k] = 0 THEN RowsFrom(T, k + 1)
    ELSE <<[k |-> k, v |-> T[k]]>> \o RowsFrom(T, k + 1)

\* source.GetRowsIterator: the rows of the range, ordered by the order key
GetRowsIterator(T) == RowsFrom(T, 1)

\* RowIterator.Next, call number n on rows R; failAt = n makes the call fail
IterNext(R, n, failAt) ==
    IF failAt = n THEN [err |-> TRUE, row |-> Nil]
    ELSE IF n <= Len(R) THEN [err |-> FALSE, row |-> R[n]]
    ELSE [err |-> FALSE, row |-> Nil]

\* utils.CompareData: equal on every column; cmp on the order-key columns
CompareData(u, d) ==
    [eq  |-> (u.k = d.k /\ u.v = d.v),
     cmp |-> IF u.k < d.k THEN -1 ELSE IF u.k > d.k THEN 1 ELSE 0]

\* source.GenerateFixSQL: Insert and Replace carry the upstream row,
\* Delete carries the downstream row
GenerateFixSQL(kind, u, d) ==
    [kind |-> kind, row |-> IF kind = "Delete" THEN d ELSE u]

\* what compareRows returns and leaves in dml when an iterator fails:
\* dml.sqls keeps what was appended, dml.rowAdd / rowDelete stay unset
CompareRowsErr(s) ==
    [equal |-> FALSE, err |-> TRUE, sqls |-> s.sqls, rowAdd |-> 0, rowDelete |-> 0]

CompareRowsRet(s) ==
    [equal |-> s.equal, err |-> FALSE, sqls |-> s.sqls,
     rowAdd |-> s.add, rowDelete |-> s.del]

\* the loop "for lastDownstreamData != nil" (upstream exhausted)
RECURSIVE DrainDelete(_, _, _)
DrainDelete(D, f, s) ==
    IF s.ld = Nil THEN CompareRowsRet(s)
    ELSE LET sql == GenerateFixSQL("Delete", Nil, s.ld)
             nx  == IterNext(D, s.j + 1, f.downAt)
             s1  == [s EXCEPT !.sqls = Append(s.sqls, sql), !.del = s.del + 1,
                              !.equal = FALSE, !.j = s.j + 1, !.ld = nx.row]
         IN  IF nx.err THEN CompareRowsErr(s1) ELSE DrainDelete(D, f, s1)

\* the loop "for lastUpstreamData != nil" (downstream exhausted)
RECURSIVE DrainInsert(_, _, _)
DrainInsert(U, f, s) ==
    IF s.lu = Nil THEN CompareRowsRet(s)
    ELSE LET sql == GenerateFixSQL("Insert", s.lu, Nil)
             nx  == IterNext(U, s.i + 1, f.upAt)
             s1  == [s EXCEPT !.sqls = Append(s.sqls, sql), !.add = s.add + 1,
                              !.equal = FALSE, !.i = s.i + 1, !.lu = nx.row]
         IN  IF nx.err THEN CompareRowsErr(s1) ELSE DrainInsert(U, f, s1)

\* the switch with "case 0" emitting an INSERT
MergeCaseInsertOnUpdate(s, cmp) ==
    IF cmp = 1 THEN
        [s EXCEPT !.sqls = Append(s.sqls, GenerateFixSQL("Delete", s.lu, s.ld)),
                  !.del = s.del + 1, !.equal = FALSE, !.ld = Nil]
    ELSE IF cmp = -1 THEN
        [s EXCEPT !.sqls = Append(s.sqls, GenerateFixSQL("Insert", s.lu, s.ld)),
                  !.add = s.add + 1, !.equal = FALSE, !.lu = Nil]
    ELSE
        [s EXCEPT !.sqls = Append(s.sqls, GenerateFixSQL("Insert", s.lu, s.ld)),
                  !.add = s.add + 1, !.del = s.del + 1, !.equal = FALSE,
                  !.lu = Nil, !.ld = Nil]

\* the switch with "case -1" deleting the downstream row
MergeCaseDeleteOnLess(s, cmp) ==
    IF cmp = 0 THEN
        [s EXCEPT !.sqls = Append(s.sqls, GenerateFixSQL("Replace", s.lu, s.ld)),
                  !.add = s.add + 1, !.del = s.del + 1, !.equal = FALSE,
                  !.lu = Nil, !.ld = Nil]
    ELSE
        [s EXCEPT !.sqls = Append(s.sqls, GenerateFixSQL("Delete", s.lu, s.ld)),
                  !.del = s.del + 1, !.equal = FALSE, !.ld = Nil]

\* the switch on cmp of an unequal pair of head rows
MergeCase(s, cmp) ==
    IF cmp = 1 THEN
        [s EXCEPT !.sqls = Append(s.sqls, GenerateFixSQL("Delete", s.lu, s.ld)),
                  !.del = s.del + 1, !.equal = FALSE, !.ld = Nil]
    ELSE IF cmp = -1 THEN
        [s EXCEPT !.sqls = Append(s.sqls, GenerateFixSQL("Insert", s.lu, s.ld)),
                  !.add = s.add + 1, !.equal = FALSE, !.lu = Nil]
    ELSE
        [s EXCEPT !.sqls = Append(s.sqls, GenerateFixSQL("Replace", s.lu, s.ld)),
                  !.add = s.add + 1, !.del = s.del + 1, !.equal = FALSE,
                  !.lu = Nil, !.ld = Nil]

\* one pass of the outer "for" of compareRows
RECURSIVE CompareLoop(_, _, _, _)
CompareLoop(U, D, f, s) ==
    LET nu == IF s.lu = Nil THEN IterNext(U, s.i + 1, f.upAt)
              ELSE [err |-> FALSE, row |-> s.lu]
        s1 == IF s.lu = Nil THEN [s EXCEPT !.i = s.i + 1, !.lu = nu.row] ELSE s
        nd == IF s1.ld = Nil THEN IterNext(D, s1.j + 1, f.downAt)
              ELSE [err |-> FALSE, row |-> s1.ld]
        s2 == IF s1.ld = Nil THEN [s1 EXCEPT !.j = s1.j + 1, !.ld = nd.row] ELSE s1
    IN  IF nu.err THEN CompareRowsErr(s)
        ELSE IF nd.err THEN CompareRowsErr(s1)
        ELSE IF s2.lu = Nil THEN DrainDelete(D, f, s2)
        ELSE IF s2.ld = Nil THEN DrainInsert(U, f, s2)
        ELSE LET c == CompareData(s2.lu, s2.ld)
             IN  IF c.eq THEN CompareLoop(U, D, f, [s2 EXCEPT !.lu = Nil, !.ld = Nil])
                 ELSE CompareLoop(U, D, f, MergeCase(s2, c.cmp))

\* no iterator failure
NoFail == [upOpen |-> FALSE, downOpen |-> FALSE, upAt |-> 0, downAt |-> 0]

\* Diff.compareRows on upstream rows U and downstream rows D; f says which
\* iterator call fails, if any.  The result carries what is left in dml.
compareRows(U, D, f) ==
    IF f.upOpen \/ f.downOpen THEN
        [equal |-> FALSE, err |-> TRUE, sqls |-> <<>>, rowAdd |-> 0, rowDelete |-> 0]
    ELSE CompareLoop(U, D, f,
            [i |-> 0, j |-> 0, lu |-> Nil, ld |-> Nil, sqls |-> <<>>,
             add |-> 0, del |-> 0, equal |-> TRUE])

\* the downstream table after the statements of sqls have been executed:
\* DELETE removes the row with the key, REPLACE writes the row over whatever
\* the key holds, INSERT adds the row and fails on a key that has a row
RECURSIVE ApplyFix(_, _)
ApplyFix(T, sqls) ==
    IF sqls = <<>> THEN T
    ELSE LET q == Head(sqls)
             T1 == IF q.kind = "Delete" THEN [T EXCEPT ![q.row.k] = 0]
                   ELSE IF q.kind = "Insert" /\ T[q.row.k] # 0 THEN T
                   ELSE [T EXCEPT ![q.row.k] = q.row.v]
         IN  ApplyFix(T1, Tail(sqls))

NoRes == [equal |-> TRUE, err |-> FALSE, sqls |-> <<>>, rowAdd |-> 0, rowDelete |-> 0]

FailCases ==
    {NoFail} \cup {[NoFail EXCEPT !.upOpen = TRUE], [NoFail EXCEPT !.downOpen = TRUE]}
    \cup {[NoFail EXCEPT !.upAt = n] : n \in 1..(MaxKey + 1)}
    \cup {[NoFail EXCEPT !.downAt = n] : n \in 1..(MaxKey + 1)}

RowsInit ==
    /\ rUp \in Tables
    /\ rDown \in Tables
    /\ rFail \in FailCases
    /\ rRes = NoRes
    /\ rFixed = rDown
    /\ rRes2 = NoRes
    /\ rpc = "compare"

\* consume's call of compareRows on the chunk
RowsCompare ==
    /\ rpc = "compare"
    /\ rRes' = compareRows(GetRowsIterator(rUp), GetRowsIterator(rDown), rFail)
    /\ rpc' = "apply"
    /\ UNCHANGED <<rUp, rDown, rFail, rFixed, rRes2>>
    /\ UNCHANGED nonRowVars

\* the operator executes the fix-SQL file against the downstream
RowsApply ==
    /\ rpc = "apply"
    /\ rFixed' = ApplyFix(rDown, rRes.sqls)
    /\ rpc' = "again"
    /\ UNCHANGED <<rUp, rDown, rFail, rRes, rRes2>>
    /\ UNCHANGED nonRowVars

\* the next run compares the chunk again
RowsAgain ==
    /\ rpc = "again"
    /\ rRes2' = compareRows(GetRowsIterator(rUp), GetRowsIterator(rFixed), NoFail)
    /\ rpc' = "done"
    /\ UNCHANGED <<rUp, rDown, rFail, rRes, rFixed>>
    /\ UNCHANGED nonRowVars

RowsNext == RowsCompare \/ RowsApply \/ RowsAgain



(***************************************************************************)
(* The batch pipeline: Equal, the consumer pool, consume, writeSQLs,       *)
(* handleCheckpoints and the checkpoint store.  ChunkIDs are 1..NChunks in *)
(* iteration order; 0 is the ID before the first chunk.                    *)
(***************************************************************************)
Chunks == 1..NChunks

\* source.ChecksumInfo{Count, Checksum, Err} as a source may return it
ChecksumInfos == [Count : 0..2, Checksum : 0..1, Err : BOOLEAN]

\* Diff.compareChecksumAndGetCount from the two sides' ChecksumInfo
compareChecksumAndGetCount(up, down) ==
    IF up.Err THEN [equal |-> FALSE, count |-> -1, err |-> TRUE]
    ELSE IF down.Err THEN [equal |-> FALSE, count |-> -1, err |-> TRUE]
    ELSE IF up.Count = down.Count /\ up.Checksum = down.Checksum
         THEN [equal |-> TRUE, count |-> up.Count, err |-> FALSE]
         ELSE [equal |-> FALSE, count |-> up.Count, err |-> FALSE]

\* the rows a chunk task may find when it reconciles its range
PipeCases ==
    LET none == [k \in Keys |-> 0]
        one  == [none EXCEPT ![1] = 1]
    IN  {[up |-> none, down |-> none, fail |-> NoFail],
         [up |-> one, down |-> none, fail |-> NoFail],
         [up |-> one, down |-> none, fail |-> [NoFail EXCEPT !.upAt = 2]],
         [up |-> one, down |-> none, fail |-> [NoFail EXCEPT !.downOpen = TRUE]]}

NoDml == [node |-> Nil, sqls |-> <<>>, rowAdd |-> 0, rowDelete |-> 0]
NoOut == [dml |-> NoDml, ck |-> "none", isEqual |-> TRUE]

\* a task that holds no ChunkDML
NoTask ==
    [rtype |-> "none", dml |-> NoDml, ck |-> "none", isEqual |-> TRUE, calls |-> <<>>,
     errs |-> {}, meetErr |-> {}]

\* what the deferred send of consume puts on sqlCh: the ChunkDML, with the
\* checksum outcome and the return value of its task
Pushed(o) == [dml |-> o.dml, ck |-> o.ck, isEqual |-> o.isEqual]

\* the stages consume runs when the checksums differ and fix SQL is exported
UnequalCalls(ck) ==
    IF ck.count > SplitThreshold THEN <<"checksum", "bin", "rows">> ELSE <<"checksum", "rows">>

\* the stages that return an error in that branch; consume reports each with
\* SetTableMeetError
UnequalErrs(ck, bin, rows) ==
    (IF ck.count > SplitThreshold /\ bin = "error" THEN {"bin"} ELSE {})
        \cup (IF rows.err THEN {"rows"} ELSE {})

\* consume with the checksum error branch leaving state at its initial Success
consumeErrorKeepsSuccess(id, rtype, ck, bin, rows) ==
    IF rtype = "Empty" THEN
        [rtype |-> rtype,
         dml |-> [NoDml EXCEPT !.node = [id |-> id, state |-> "ignore"]],
         ck |-> "skipped", isEqual |-> TRUE, calls |-> <<>>, errs |-> {}, meetErr |-> {}]
    ELSE IF ck.err THEN
        [rtype |-> rtype,
         dml |-> [NoDml EXCEPT !.node = [id |-> id, state |-> "success"]],
         ck |-> "error", isEqual |-> FALSE, calls |-> <<"checksum">>,
         errs |-> {"checksum"}, meetErr |-> {"checksum"}]
    ELSE IF ~ck.equal /\ exportFixSQL THEN
        [rtype |-> rtype,
         dml |-> [node |-> [id |-> id, state |-> "failed"], sqls |-> rows.sqls,
                  rowAdd |-> rows.rowAdd, rowDelete |-> rows.rowDelete],
         ck |-> "unequal", isEqual |-> ck.equal /\ rows.equal,
         calls |-> UnequalCalls(ck),
         errs |-> UnequalErrs(ck, bin, rows), meetErr |-> UnequalErrs(ck, bin, rows)]
    ELSE
        [rtype |-> rtype,
         dml |-> [NoDml EXCEPT !.node = [id |-> id, state |-> "success"]],
         ck |-> IF ck.equal THEN "equal" ELSE "unequal", isEqual |-> ck.equal,
         calls |-> <<"checksum">>, errs |-> {}, meetErr |-> {}]

\* consume running row reconciliation after a checksum error
consumeReconcilesAfterError(id, rtype, ck, bin, rows) ==
    IF rtype = "Empty" THEN
        [rtype |-> rtype,
         dml |-> [NoDml EXCEPT !.node = [id |-> id, state |-> "ignore"]],
         ck |-> "skipped", isEqual |-> TRUE, calls |-> <<>>, errs |-> {}, meetErr |-> {}]
    ELSE IF ck.err THEN
        [rtype |-> rtype,
         dml |-> [node |-> [id |-> id, state |-> "failed"], sqls |-> rows.sqls,
                  rowAdd |-> rows.rowAdd, rowDelete |-> rows.rowDelete],
         ck |-> "error", isEqual |-> FALSE, calls |-> <<"checksum", "rows">>,
         errs |-> {"checksum"}, meetErr |-> {"checksum"}]
    ELSE IF ~ck.equal /\ exportFixSQL THEN
        [rtype |-> rtype,
         dml |-> [node |-> [id |-> id, state |-> "failed"], sqls |-> rows.sqls,
                  rowAdd |-> rows.rowAdd, rowDelete |-> rows.rowDelete],
         ck |-> "unequal", isEqual |-> ck.equal /\ rows.equal,
         calls |-> UnequalCalls(ck),
         errs |-> UnequalErrs(ck, bin, rows), meetErr |-> UnequalErrs(ck, bin, rows)]
    ELSE
        [rtype |-> rtype,
         dml |-> [NoDml EXCEPT !.node = [id |-> id, state |-> "success"]],
         ck |-> IF ck.equal THEN "equal" ELSE "unequal", isEqual |-> ck.equal,
         calls |-> <<"checksum">>, errs |-> {}, meetErr |-> {}]

\* consume running the checksum stage on an Empty chunk
consumeChecksumsEmpty(id, rtype, ck, bin, rows) ==
    IF ck.err THEN
        [rtype |-> rtype,
         dml |-> [NoDml EXCEPT !.node = [id |-> id, state |-> "failed"]],
         ck |-> "error", isEqual |-> FALSE, calls |-> <<"checksum">>,
         errs |-> {"checksum"}, meetErr |-> {"checksum"}]
    ELSE IF ~ck.equal /\ exportFixSQL THEN
        [rtype |-> rtype,
         dml |-> [node |-> [id |-> id, state |-> "failed"], sqls |-> rows.sqls,
                  rowAdd |-> rows.rowAdd, rowDelete |-> rows.rowDelete],
         ck |-> "unequal", isEqual |-> ck.equal /\ rows.equal,
         calls |-> UnequalCalls(ck),
         errs |-> UnequalErrs(ck, bin, rows), meetErr |-> UnequalErrs(ck, bin, rows)]
    ELSE
        [rtype |-> rtype,
         dml |-> [NoDml EXCEPT !.node = [id |-> id, state |-> "success"]],
         ck |-> IF ck.equal THEN "equal" ELSE "unequal", isEqual |-> ck.equal,
         calls |-> <<"checksum">>, errs |-> {}, meetErr |-> {}]

\* Diff.consume up to its return: the ChunkDML it leaves for the deferred send,
\* its return value, (rtype) the type of its chunk, (ck) the outcome of the
\* checksum stage, (calls) the stages
\* it ran, (errs) the stages that returned an error and (meetErr) the stages
\* whose error it reported against the table; bin is what BinGenerate returns
\* when it is called
consume(id, rtype, ck, bin, rows) ==
    IF rtype = "Empty" THEN
        [rtype |-> rtype,
         dml |-> [NoDml EXCEPT !.node = [id |-> id, state |-> "ignore"]],
         ck |-> "skipped", isEqual |-> TRUE, calls |-> <<>>, errs |-> {}, meetErr |-> {}]
    ELSE IF ck.err THEN
        [rtype |-> rtype,
         dml |-> [NoDml EXCEPT !.node = [id |-> id, state |-> "failed"]],
         ck |-> "error", isEqual |-> FALSE, calls |-> <<"checksum">>,
         errs |-> {"checksum"}, meetErr |-> {"checksum"}]
    ELSE IF ~ck.equal /\ exportFixSQL THEN
        [rtype |-> rtype,
         dml |-> [node |-> [id |-> id, state |-> "failed"], sqls |-> rows.sqls,
                  rowAdd |-> rows.rowAdd, rowDelete |-> rows.rowDelete],
         ck |-> "unequal", isEqual |-> ck.equal /\ rows.equal,
         calls |-> UnequalCalls(ck),
         errs |-> UnequalErrs(ck, bin, rows), meetErr |-> UnequalErrs(ck, bin, rows)]
    ELSE
        [rtype |-> rtype,
         dml |-> [NoDml EXCEPT !.node = [id |-> id, state |-> "success"]],
         ck |-> IF ck.equal THEN "equal" ELSE "unequal", isEqual |-> ck.equal,
         calls |-> <<"checksum">>, errs |-> {}, meetErr |-> {}]

(* -------------------- the checkpoint store -------------------- *)

\* the pending node with the smallest ChunkID
HeapMin(h) == CHOOSE n \in h : \A m \in h : n.id <= m.id

\* Checkpoint.GetChunkSnapshot: pop while the minimum is the immediate
\* successor of current; the last node popped, Nil when none was
RECURSIVE GetChunkSnapshot(_, _, _)
GetChunkSnapshot(h, cur, last) ==
    IF h # {} /\ HeapMin(h).id = cur + 1
    THEN GetChunkSnapshot(h \ {HeapMin(h)}, cur + 1, HeapMin(h))
    ELSE [node |-> last, heap |-> h, current |-> cur]

\* Checkpoint.Insert
Insert(h, node) == h \cup {node}

\* flush saving the newest pending node without asking for the snapshot
flushNewest(saveOk) ==
    LET newest == CHOOSE n \in heap : \A m \in heap : m.id <= n.id
    IN  /\ heap' = heap
        /\ current' = current
        /\ cpFile' = IF heap # {} /\ saveOk THEN newest ELSE cpFile

\* the closure flush of handleCheckpoints; saveOk: SaveChunk succeeded
flush(saveOk) ==
    LET s == GetChunkSnapshot(heap, current, Nil)
    IN  /\ heap' = s.heap
        /\ current' = s.current
        /\ cpFile' = IF s.node # Nil /\ saveOk THEN s.node ELSE cpFile

(* -------------------- Equal -------------------- *)

Alive == fatal = "no"

\* the deferred block closing the channel before the pool has drained
DeferStepsCloseFirst == <<"close", "waitPool", "waitSql", "stop", "waitCp">>

\* the deferred block stopping the checkpoint routine before the DML writer
\* has returned
DeferStepsStopFirst == <<"waitPool", "close", "stop", "waitCp", "waitSql">>

\* the deferred block of Equal, in the order it runs
DeferSteps == <<"waitPool", "close", "waitSql", "stop", "waitCp">>

DeferIndex(step) == CHOOSE i \in 1..Len(DeferSteps) : DeferSteps[i] = step

\* pc after the deferred step `step` completed
AfterDefer(step) ==
    IF DeferIndex(step) = Len(DeferSteps) THEN "done"
    ELSE DeferSteps[DeferIndex(step) + 1]

DeferDone(step) ==
    /\ pc = step
    /\ pc' = AfterDefer(step)
    /\ deferLog' = Append(deferLog, step)

Busy == {c \in Chunks : task[c] \in {"run", "send"}}

PipeInit ==
    /\ exportFixSQL \in BOOLEAN
    /\ pathHasTrash \in BOOLEAN
    /\ pc = "start"
    /\ nextChunk = 1
    /\ task = [c \in Chunks |-> "none"]
    /\ dmlOf = [c \in Chunks |-> NoTask]
    /\ hasSqls = {}
    /\ sqlCh = <<>>
    /\ chClosed = FALSE
    /\ wpc = "none"
    /\ wdml = NoOut
    /\ files = [c \in Chunks |-> "none"]
    /\ trash = {}
    /\ heap = {}
    /\ inserted = {}
    /\ current = 0
    /\ cpFile = Nil
    /\ cppc = "none"
    /\ stopSent = FALSE
    /\ cancelled = FALSE
    /\ fatal = "no"
    /\ restarts = 0
    /\ startRange = 0
    /\ deferLog = <<>>

\* generateChunksIterator succeeded: the two background goroutines start
EqualStart ==
    /\ Alive /\ pc = "start"
    /\ pc' = "iter"
    /\ nextChunk' = startRange + 1
    /\ wpc' = "recv"
    /\ cppc' = "loop"
    /\ UNCHANGED <<exportFixSQL, pathHasTrash, task, dmlOf, hasSqls, sqlCh, chClosed, wdml, files,
                   trash, heap, inserted, current, cpFile, stopSent, cancelled, fatal, restarts,
                   startRange, deferLog>>
    /\ UNCHANGED nonPipeVars

\* generateChunksIterator failed: Equal returns before anything is started
EqualStartFail ==
    /\ Alive /\ pc = "start"
    /\ pc' = "failed"
    /\ UNCHANGED <<exportFixSQL, pathHasTrash, nextChunk, task, dmlOf, hasSqls, sqlCh, chClosed,
                   wpc, wdml, files, trash, heap, inserted, current, cpFile, cppc, stopSent,
                   cancelled, fatal, restarts, startRange, deferLog>>
    /\ UNCHANGED nonPipeVars

\* chunksIter.Next yields a chunk and pool.Apply hands it to a free worker
EqualApply ==
    /\ Alive /\ pc = "iter"
    /\ nextChunk <= NChunks
    /\ Cardinality(Busy) < CheckThreadCount
    /\ task' = [task EXCEPT ![nextChunk] = "run"]
    /\ nextChunk' = nextChunk + 1
    /\ UNCHANGED <<exportFixSQL, pathHasTrash, pc, dmlOf, hasSqls, sqlCh, chClosed, wpc, wdml,
                   files, trash, heap, inserted, current, cpFile, cppc, stopSent, cancelled, fatal,
                   restarts, startRange, deferLog>>
    /\ UNCHANGED nonPipeVars

\* chunksIter.Next returns nil (break) or an error (return): the defer runs
EqualLeaveLoop ==
    /\ Alive /\ pc = "iter"
    /\ pc' = DeferSteps[1]
    /\ UNCHANGED <<exportFixSQL, pathHasTrash, nextChunk, task, dmlOf, hasSqls, sqlCh, chClosed,
                   wpc, wdml, files, trash, heap, inserted, current, cpFile, cppc, stopSent,
                   cancelled, fatal, restarts, startRange, deferLog>>
    /\ UNCHANGED nonPipeVars

\* pool.WaitFinished() returning while tasks still run
DeferWaitPoolNoWait ==
    /\ Alive /\ DeferDone("waitPool")
    /\ UNCHANGED <<exportFixSQL, pathHasTrash, nextChunk, task, dmlOf, hasSqls, sqlCh, chClosed,
                   wpc, wdml, files, trash, heap, inserted, current, cpFile, cppc, stopSent,
                   cancelled, fatal, restarts, startRange>>
    /\ UNCHANGED nonPipeVars

\* pool.WaitFinished()
DeferWaitPool ==
    /\ Alive /\ DeferDone("waitPool")
    /\ Busy = {}
    /\ UNCHANGED <<exportFixSQL, pathHasTrash, nextChunk, task, dmlOf, hasSqls, sqlCh, chClosed,
                   wpc, wdml, files, trash, heap, inserted, current, cpFile, cppc, stopSent,
                   cancelled, fatal, restarts, startRange>>
    /\ UNCHANGED nonPipeVars

\* close(df.sqlCh)
DeferClose ==
    /\ Alive /\ DeferDone("close")
    /\ chClosed' = TRUE
    /\ UNCHANGED <<exportFixSQL, pathHasTrash, nextChunk, task, dmlOf, hasSqls, sqlCh, wpc, wdml,
                   files, trash, heap, inserted, current, cpFile, cppc, stopSent, cancelled, fatal,
                   restarts, startRange>>
    /\ UNCHANGED nonPipeVars

\* df.sqlWg.Wait()
DeferWaitSql ==
    /\ Alive /\ DeferDone("waitSql")
    /\ wpc = "returned"
    /\ UNCHANGED <<exportFixSQL, pathHasTrash, nextChunk, task, dmlOf, hasSqls, sqlCh, chClosed,
                   wpc, wdml, files, trash, heap, inserted, current, cpFile, cppc, stopSent,
                   cancelled, fatal, restarts, startRange>>
    /\ UNCHANGED nonPipeVars

\* stopCh <- struct{}{} meets the receive in handleCheckpoints' select
DeferStop ==
    /\ Alive /\ DeferDone("stop")
    /\ cppc = "loop"
    /\ cppc' = "final"
    /\ stopSent' = TRUE
    /\ UNCHANGED <<exportFixSQL, pathHasTrash, nextChunk, task, dmlOf, hasSqls, sqlCh, chClosed,
                   wpc, wdml, files, trash, heap, inserted, current, cpFile, cancelled, fatal,
                   restarts, startRange>>
    /\ UNCHANGED nonPipeVars

\* df.checkpointWg.Wait()
DeferWaitCp ==
    /\ Alive /\ DeferDone("waitCp")
    /\ cppc = "returned"
    /\ UNCHANGED <<exportFixSQL, pathHasTrash, nextChunk, task, dmlOf, hasSqls, sqlCh, chClosed,
                   wpc, wdml, files, trash, heap, inserted, current, cpFile, cppc, stopSent,
                   cancelled, fatal, restarts, startRange>>
    /\ UNCHANGED nonPipeVars

(* -------------------- the chunk tasks -------------------- *)

\* what compareChecksumAndGetCount can return for a chunk
ChecksumOutcomes ==
    {compareChecksumAndGetCount(up, down) : up \in ChecksumInfos, down \in ChecksumInfos}

\* what compareRows can return for a chunk
RowsOutcomes ==
    {compareRows(GetRowsIterator(d.up), GetRowsIterator(d.down), d.fail) : d \in PipeCases}

\* what compareRows can return where consume calls it: for unequal checksums
\* when fix SQL is exported; elsewhere its result is never looked at
RowsCalled(rtype, ck) ==
    IF rtype # "Empty" /\ ~ck.err /\ ~ck.equal /\ exportFixSQL THEN RowsOutcomes
    ELSE {CHOOSE r \in RowsOutcomes : r.sqls # <<>>}

\* what BinGenerate can return: consume calls it only for unequal checksums
\* of more than SplitThreshold rows
BinOutcomes(ck) ==
    IF ~ck.err /\ ~ck.equal /\ ck.count > SplitThreshold THEN {"ok", "error"} ELSE {"notcalled"}

\* the body of consume for chunk c, up to the deferred send
Consume(c) ==
    /\ Alive /\ task[c] = "run"
    /\ \E rtype \in {"Empty", "Others"}, ck \in ChecksumOutcomes :
          \E bin \in BinOutcomes(ck), rows \in RowsCalled(rtype, ck) :
              dmlOf' = [dmlOf EXCEPT ![c] = consume(c, rtype, ck, bin, rows)]
    /\ task' = [task EXCEPT ![c] = "send"]
    /\ UNCHANGED <<exportFixSQL, pathHasTrash, pc, nextChunk, hasSqls, sqlCh, chClosed, wpc, wdml,
                   files, trash, heap, inserted, current, cpFile, cppc, stopSent, cancelled, fatal,
                   restarts, startRange, deferLog>>
    /\ UNCHANGED nonPipeVars

\* defer func() { df.sqlCh <- dml }(): blocks while the buffer is full,
\* panics when the channel is closed
ConsumeSend(c) ==
    /\ Alive /\ task[c] = "send"
    /\ IF chClosed
       THEN /\ fatal' = "send on closed channel"
            /\ UNCHANGED <<sqlCh, task, dmlOf, hasSqls>>
       ELSE /\ Len(sqlCh) < DefaultChannelBuffer
            /\ sqlCh' = Append(sqlCh, Pushed(dmlOf[c]))
            /\ task' = [task EXCEPT ![c] = "done"]
            /\ dmlOf' = [dmlOf EXCEPT ![c] = NoTask]
            /\ hasSqls' = IF dmlOf[c].dml.sqls # <<>> THEN hasSqls \cup {c}
                          ELSE hasSqls \ {c}
            /\ UNCHANGED fatal
    /\ UNCHANGED <<exportFixSQL, pathHasTrash, pc, nextChunk, chClosed, wpc, wdml,
                   files, trash, heap, inserted, current, cpFile, cppc, stopSent, cancelled,
                   restarts, startRange, deferLog>>
    /\ UNCHANGED nonPipeVars


(* -------------------- writeSQLs -------------------- *)

PipeFrame == <<exportFixSQL, pathHasTrash, pc, nextChunk, task, dmlOf, hasSqls, chClosed, trash,
               cppc, stopSent, cancelled, restarts, startRange, deferLog>>

\* writeSQLs going from the receive straight to df.cp.Insert
WriterRecvSkipsFile ==
    /\ Alive /\ wpc = "recv"
    /\ sqlCh # <<>>
    /\ wdml' = Head(sqlCh)
    /\ sqlCh' = Tail(sqlCh)
    /\ wpc' = "insert"
    /\ UNCHANGED <<PipeFrame, files, heap, inserted, current, cpFile, fatal>>
    /\ UNCHANGED nonPipeVars

\* case dml, ok := <-df.sqlCh with a ChunkDML in the buffer
WriterRecv ==
    /\ Alive /\ wpc = "recv"
    /\ sqlCh # <<>>
    /\ wdml' = Head(sqlCh)
    /\ sqlCh' = Tail(sqlCh)
    /\ wpc' = IF Len(Head(sqlCh).dml.sqls) > 0 THEN "create" ELSE "insert"
    /\ UNCHANGED <<PipeFrame, files, heap, inserted, current, cpFile, fatal>>
    /\ UNCHANGED nonPipeVars

\* the receive on the closed and drained channel: return
WriterChannelClosed ==
    /\ Alive /\ wpc = "recv"
    /\ sqlCh = <<>> /\ chClosed
    /\ wpc' = "returned"
    /\ UNCHANGED <<PipeFrame, sqlCh, wdml, files, heap, inserted, current, cpFile, fatal>>
    /\ UNCHANGED nonPipeVars

\* case <-ctx.Done(): return
WriterCtxDone ==
    /\ Alive /\ wpc = "recv"
    /\ cancelled
    /\ wpc' = "returned"
    /\ UNCHANGED <<PipeFrame, sqlCh, wdml, files, heap, inserted, current, cpFile, fatal>>
    /\ UNCHANGED nonPipeVars

\* ioutil2.FileExists (fatal "repeat sql") and os.Create (fatal on error)
WriterCreate ==
    /\ Alive /\ wpc = "create"
    /\ \/ /\ files[wdml.dml.node.id] # "none"
          /\ fatal' = "repeat sql"
          /\ UNCHANGED <<files, wpc>>
       \/ /\ files[wdml.dml.node.id] = "none"
          /\ fatal' = "cannot create file"
          /\ UNCHANGED <<files, wpc>>
       \/ /\ files[wdml.dml.node.id] = "none"
          /\ files' = [files EXCEPT ![wdml.dml.node.id] = "open"]
          /\ wpc' = "write"
          /\ UNCHANGED fatal
    /\ UNCHANGED <<PipeFrame, sqlCh, wdml, heap, inserted, current, cpFile>>
    /\ UNCHANGED nonPipeVars

\* writeSQLs without fixSQLFile.Close()
WriterWriteNoClose ==
    /\ Alive /\ wpc = "write"
    /\ wpc' = "insert"
    /\ UNCHANGED <<PipeFrame, sqlCh, wdml, heap, inserted, current, cpFile, files, fatal>>
    /\ UNCHANGED nonPipeVars

\* the header and the statements are written (fatal on error), the file is closed
WriterWrite ==
    /\ Alive /\ wpc = "write"
    /\ \/ /\ fatal' = "write sql failed"
          /\ UNCHANGED <<files, wpc>>
       \/ /\ files' = [files EXCEPT ![wdml.dml.node.id] = "closed"]
          /\ wpc' = "insert"
          /\ UNCHANGED fatal
    /\ UNCHANGED <<PipeFrame, sqlCh, wdml, heap, inserted, current, cpFile>>
    /\ UNCHANGED nonPipeVars

\* df.cp.Insert(dml.node)
WriterInsert ==
    /\ Alive /\ wpc = "insert"
    /\ heap' = Insert(heap, wdml.dml.node)
    /\ inserted' = inserted \cup {wdml.dml.node.id}
    /\ wdml' = NoOut
    /\ wpc' = "recv"
    /\ UNCHANGED <<PipeFrame, sqlCh, files, current, cpFile, fatal>>
    /\ UNCHANGED nonPipeVars

(* -------------------- handleCheckpoints -------------------- *)

CpFrame == <<inserted, exportFixSQL, pathHasTrash, pc, nextChunk, task, dmlOf, hasSqls, sqlCh, chClosed, wpc,
             wdml, files, trash, stopSent, cancelled, fatal, restarts, startRange,
             deferLog>>

\* case <-time.After(10 * time.Second): flush()
CpTimerFlush ==
    /\ Alive /\ cppc = "loop"
    /\ \E saveOk \in BOOLEAN : flush(saveOk)
    /\ UNCHANGED <<CpFrame, cppc>>
    /\ UNCHANGED nonPipeVars

\* case <-ctx.Done(): return
CpCtxDone ==
    /\ Alive /\ cppc = "loop"
    /\ cancelled
    /\ cppc' = "final"
    /\ UNCHANGED <<CpFrame, heap, current, cpFile>>
    /\ UNCHANGED nonPipeVars

\* defer flush() and checkpointWg.Done() on return
CpFinalFlush ==
    /\ Alive /\ cppc = "final"
    /\ \E saveOk \in BOOLEAN : flush(saveOk)
    /\ cppc' = "returned"
    /\ UNCHANGED CpFrame
    /\ UNCHANGED nonPipeVars

(* -------------------- the environment -------------------- *)

\* the context is cancelled while Equal runs
Cancel ==
    /\ Alive /\ ~cancelled
    /\ pc \notin {"start", "failed", "done"}
    /\ cancelled' = TRUE
    /\ UNCHANGED <<exportFixSQL, pathHasTrash, pc, nextChunk, task, dmlOf, hasSqls, sqlCh, chClosed,
                   wpc, wdml, files, trash, heap, inserted, current, cpFile, cppc, stopSent, fatal,
                   restarts, startRange, deferLog>>
    /\ UNCHANGED nonPipeVars

\* the ChunkID of node n, 0 for no node
IdOf(n) == IF n = Nil THEN 0 ELSE n.id

\* removeSQLFiles(floor) on the fix-SQL files of the chunks: a file whose
\* ChunkID is above floor is renamed into the trash directory, unless its
\* path contains ".trash" (the walk returns early for such a path)
PurgeMoves(fs, floor) ==
    {c \in Chunks : fs[c] # "none" /\ ~pathHasTrash /\ c > floor}

\* the process is killed (or has died) and is started again: NewDiff runs
\* initCheckpoint, which loads the checkpoint file if there is one, primes the
\* checkpoint store, purges the fix-SQL files and sets startRange
Restart ==
    /\ restarts < MaxRestarts
    /\ pc \notin {"start", "failed"}
    /\ restarts' = restarts + 1
    /\ LET floor == IdOf(cpFile)
           moved == PurgeMoves(files, floor)
       IN  /\ files' = [c \in Chunks |-> IF c \in moved THEN "none" ELSE files[c]]
           /\ trash' = trash \cup moved
           /\ current' = floor
           /\ startRange' = floor
    /\ heap' = {}
    /\ inserted' = {}
    /\ pc' = "start"
    /\ nextChunk' = 1
    /\ task' = [c \in Chunks |-> "none"]
    /\ dmlOf' = [c \in Chunks |-> NoTask]
    /\ sqlCh' = <<>>
    /\ chClosed' = FALSE
    /\ wpc' = "none"
    /\ wdml' = NoOut
    /\ cppc' = "none"
    /\ stopSent' = FALSE
    /\ cancelled' = FALSE
    /\ fatal' = "no"
    /\ deferLog' = <<>>
    /\ UNCHANGED <<exportFixSQL, pathHasTrash, hasSqls, cpFile>>
    /\ UNCHANGED nonPipeVars

(***************************************************************************)
(* The bisector: consume's checksum of a chunk, BinGenerate and binSearch  *)
(* on one table with a single-column index.  A range holds the keys k with *)
(* lo <= k < hi.  The upstream has payload 1 for every row; a downstream   *)
(* row is absent (0), the same (1) or different (2).                       *)
(***************************************************************************)
BinKeys == 1..MaxBinKey

InRange(lo, hi) == {k \in BinKeys : lo <= k /\ k < hi}

\* source.GetCountAndCrc32 over [lo, hi): the row count and a checksum that
\* is equal exactly for equal row sets
GetCountAndCrc32(T, lo, hi) ==
    LET rows == {<<k, T[k]>> : k \in {x \in InRange(lo, hi) : T[x] # 0}}
    IN  [Count |-> Cardinality(rows), Checksum |-> rows, Err |-> FALSE]

\* utils.GetApproximateMidBySize: the key of a row of the work source inside
\* the range; 0, below every key, when the query finds no row
MidValues(T, lo, hi) ==
    LET ks == {k \in InRange(lo, hi) : T[k] # 0}
    IN  IF ks = {} THEN {0} ELSE ks

NoSum == [equal |-> FALSE, count |-> 0, err |-> FALSE]

\* compareChecksumAndGetCount on [lo, hi) of the two tables as they are now
BinChecksum(lo, hi) ==
    compareChecksumAndGetCount(GetCountAndCrc32(bUp, lo, hi), GetCountAndCrc32(bDown, lo, hi))

WorkTable == IF bWork = "up" THEN bUp ELSE bDown

BinInit ==
    /\ bWork \in {"up", "down"}
    /\ bIndex \in {"none", "other", "nonunique", "nocolumns", "unique"}
    /\ bUp \in [BinKeys -> 0..1]
    /\ bDown \in [BinKeys -> 0..2]
    /\ bLo \in {1, 2} /\ bHi = MaxBinKey + 1
    /\ bCount = 0 /\ bMid = 0
    /\ bR1 = NoSum /\ bR2 = NoSum
    /\ bpc = "consume"
    /\ bRes = Nil
    /\ bChunk = <<bLo, bHi>> /\ bInfo = Nil /\ bWritten = FALSE

\* consume: the checksum of the chunk, then BinGenerate when it is unequal
\* and larger than SplitThreshold; BinGenerate hands the range back unless
\* the range's index is a PRIMARY or UNIQUE index with columns
BinGenerate ==
    /\ bpc = "consume"
    /\ LET ck == BinChecksum(bLo, bHi)
       IN  IF ck.equal \/ ck.count <= SplitThreshold
           THEN /\ bpc' = "notcalled"
                /\ UNCHANGED <<bCount, bRes>>
           ELSE IF bIndex # "unique"
           THEN /\ bpc' = "returned"
                /\ bRes' = <<bLo, bHi>>
                /\ bCount' = ck.count
           ELSE /\ bpc' = "entry"
                /\ bCount' = ck.count
                /\ UNCHANGED bRes
    /\ UNCHANGED <<bWork, bIndex, bUp, bDown, bLo, bHi, bMid, bR1, bR2>>
    /\ UNCHANGED <<bChunk, bInfo, bWritten>>
    /\ UNCHANGED nonBinVars

\* binSearch from its entry to the first checksum: the threshold test,
\* GetApproximateMidBySize (which may fail) and the two Update calls
BinSearchEntry ==
    /\ bpc = "entry"
    /\ \/ /\ bCount <= SplitThreshold
          /\ bRes' = <<bLo, bHi>>
          /\ bpc' = "returned"
          /\ UNCHANGED bMid
       \/ /\ bCount > SplitThreshold
          /\ bpc' = "error"
          /\ UNCHANGED <<bRes, bMid>>
       \/ /\ bCount > SplitThreshold
          /\ \E m \in MidValues(WorkTable, bLo, bHi) : bMid' = m
          /\ bpc' = "sum1"
          /\ UNCHANGED bRes
    /\ UNCHANGED <<bWork, bIndex, bUp, bDown, bLo, bHi, bCount, bR1, bR2>>
    /\ UNCHANGED <<bChunk, bInfo, bWritten>>
    /\ UNCHANGED nonBinVars

\* compareChecksumAndGetCount(tableRange1), tableRange1 = [lo, mid)
BinSearchSum1 ==
    /\ bpc = "sum1"
    /\ \/ /\ bpc' = "error"
          /\ UNCHANGED bR1
       \/ /\ bR1' = BinChecksum(bLo, bMid)
          /\ bpc' = "sum2"
    /\ UNCHANGED <<bWork, bIndex, bUp, bDown, bLo, bHi, bCount, bMid, bR2, bRes>>
    /\ UNCHANGED <<bChunk, bInfo, bWritten>>
    /\ UNCHANGED nonBinVars

\* compareChecksumAndGetCount(tableRange2), tableRange2 = [mid, hi)
BinSearchSum2 ==
    /\ bpc = "sum2"
    /\ \/ /\ bpc' = "error"
          /\ UNCHANGED bR2
       \/ /\ bR2' = BinChecksum(bMid, bHi)
          /\ bpc' = "decide"
    /\ UNCHANGED <<bWork, bIndex, bUp, bDown, bLo, bHi, bCount, bMid, bR1, bRes>>
    /\ UNCHANGED <<bChunk, bInfo, bWritten>>
    /\ UNCHANGED nonBinVars

\* the cases on (isEqual1, isEqual2) without the count test before them
BinCaseNoCountTest(count, r1, r2) ==
    IF ~r1.equal /\ ~r2.equal THEN "return"
    ELSE IF ~r1.equal THEN "left"
    ELSE IF ~r2.equal THEN "right"
    ELSE "fatal equal"

\* the cases on (isEqual1, isEqual2) with the two recursions exchanged
BinCaseSwapped(count, r1, r2) ==
    IF r1.count + r2.count # count THEN "fatal count"
    ELSE IF ~r1.equal /\ ~r2.equal THEN "return"
    ELSE IF ~r1.equal THEN "right"
    ELSE IF ~r2.equal THEN "left"
    ELSE "fatal equal"

\* the cases with two mismatching halves sent into range1
BinCaseLeftFirst(count, r1, r2) ==
    IF r1.count + r2.count # count THEN "fatal count"
    ELSE IF ~r1.equal THEN "left"
    ELSE IF ~r2.equal THEN "right"
    ELSE "fatal equal"

\* what binSearch does once both checksums are known: "fatal count",
\* "fatal equal", "return" (the range itself), "left" or "right" (recursion)
BinCase(count, r1, r2) ==
    IF r1.count + r2.count # count THEN "fatal count"
    ELSE IF ~r1.equal /\ ~r2.equal THEN "return"
    ELSE IF ~r1.equal THEN "left"
    ELSE IF ~r2.equal THEN "right"
    ELSE "fatal equal"

\* the count test and the cases on (isEqual1, isEqual2)
BinSearchDecide ==
    /\ bpc = "decide"
    /\ LET case == BinCase(bCount, bR1, bR2)
       IN  /\ bpc' = IF case \in {"fatal count", "fatal equal"} THEN case
                     ELSE IF case = "return" THEN "returned" ELSE "entry"
           /\ bRes' = IF case = "return" THEN <<bLo, bHi>> ELSE bRes
           /\ bHi' = IF case = "left" THEN bMid ELSE bHi
           /\ bLo' = IF case = "right" THEN bMid ELSE bLo
           /\ bCount' = IF case = "left" THEN bR1.count
                        ELSE IF case = "right" THEN bR2.count ELSE bCount
    /\ UNCHANGED <<bWork, bIndex, bUp, bDown, bMid, bR1, bR2>>
    /\ UNCHANGED <<bChunk, bInfo, bWritten>>
    /\ UNCHANGED nonBinVars

\* the upstream is written to while the task runs: a row appears or goes
BinUpstreamWrite ==
    /\ bpc \in {"entry", "sum1", "sum2"}
    /\ \E k \in BinKeys : bUp' = [bUp EXCEPT ![k] = 1 - bUp[k]]
    /\ bWritten' = TRUE
    /\ UNCHANGED <<bWork, bIndex, bDown, bLo, bHi, bCount, bMid, bR1, bR2, bpc, bRes>>
    /\ UNCHANGED <<bChunk, bInfo>>
    /\ UNCHANGED nonBinVars

\* consume after the checksum was unequal: info is rangeInfo when BinGenerate
\* was not called or returned an error, and the range it returned otherwise;
\* the tables are as they were at the checksum while bpc is "notcalled"
BinCompareRows ==
    /\ bInfo = Nil
    /\ \/ /\ bpc = "notcalled"
          /\ ~BinChecksum(bLo, bHi).equal
          /\ bInfo' = bChunk
       \/ /\ bpc = "error"
          /\ bInfo' = bChunk
       \/ /\ bpc = "returned"
          /\ bInfo' = bRes
    /\ UNCHANGED <<bWork, bIndex, bUp, bDown, bLo, bHi, bCount, bMid, bR1, bR2, bpc, bRes>>
    /\ UNCHANGED <<bChunk, bWritten>>
    /\ UNCHANGED nonBinVars

BinNext ==
    \/ BinGenerate \/ BinSearchEntry \/ BinSearchSum1 \/ BinSearchSum2
    \/ BinSearchDecide \/ BinUpstreamWrite \/ BinCompareRows

(***************************************************************************)
(* The stale-file purge, removeSQLFiles, on file names.  A string is a     *)
(* sequence of one-character strings.                                      *)
(***************************************************************************)
Digits == <<"0", "1", "2", "3", "4", "5", "6", "7", "8", "9">>

DigitVal(ch) == (CHOOSE i \in 1..10 : Digits[i] = ch) - 1

IsDigit(ch) == \E i \in 1..10 : Digits[i] = ch

\* strings.HasSuffix
HasSuffix(str, suf) ==
    /\ Len(str) >= Len(suf)
    /\ SubSeq(str, Len(str) - Len(suf) + 1, Len(str)) = suf

\* strings.Contains
Contains(str, sub) ==
    \E i \in 1..(Len(str) - Len(sub) + 1) : SubSeq(str, i, i + Len(sub) - 1) = sub

\* strings.TrimRight(str, cutset): drops every trailing character of cutset
RECURSIVE TrimRight(_, _)
TrimRight(str, cutset) ==
    IF str # <<>> /\ str[Len(str)] \in cutset
    THEN TrimRight(SubSeq(str, 1, Len(str) - 1), cutset)
    ELSE str

\* the index of the first sep in str, 0 when there is none
IndexOf(str, sep) ==
    IF \E i \in 1..Len(str) : str[i] = sep
    THEN CHOOSE i \in 1..Len(str) : str[i] = sep /\ \A j \in 1..(i - 1) : str[j] # sep
    ELSE 0

\* strings.SplitN(str, sep, n) for n >= 1: at most n fields, the last one
\* the unsplit remainder
RECURSIVE SplitN(_, _, _)
SplitN(str, sep, n) ==
    LET i == IndexOf(str, sep)
    IN  IF n = 1 \/ i = 0 THEN <<str>>
        ELSE <<SubSeq(str, 1, i - 1)>> \o SplitN(SubSeq(str, i + 1, Len(str)), sep, n - 1)

\* strings.Split(str, sep)
Split(str, sep) == SplitN(str, sep, Len(str) + 1)

RECURSIVE DigitsVal(_)
DigitsVal(str) ==
    IF str = <<>> THEN 0
    ELSE 10 * DigitsVal(SubSeq(str, 1, Len(str) - 1)) + DigitVal(str[Len(str)])

\* strconv.Atoi: an optional sign and at least one digit
Atoi(str) ==
    LET body == IF str # <<>> /\ str[1] \in {"-", "+"} THEN Tail(str) ELSE str
    IN  IF body = <<>> \/ \E i \in 1..Len(body) : ~IsDigit(body[i])
        THEN [ok |-> FALSE, val |-> 0]
        ELSE [ok |-> TRUE,
              val |-> IF str[1] = "-" THEN 0 - DigitsVal(body) ELSE DigitsVal(body)]

\* fmt's %d
RECURSIVE Itoa(_)
Itoa(n) ==
    IF n < 0 THEN <<"-">> \o Itoa(0 - n)
    ELSE IF n < 10 THEN <<Digits[n + 1]>>
    ELSE Itoa(n \div 10) \o <<Digits[(n % 10) + 1]>>

\* chunk.ChunkID
ChunkID(t, l, r, i, cnt) ==
    [TableIndex |-> t, BucketIndexLeft |-> l, BucketIndexRight |-> r,
     ChunkIndex |-> i, ChunkCnt |-> cnt]

\* ChunkID.Compare: the order of the five fields, first difference decides
Compare(a, b) ==
    LET x == <<a.TableIndex, a.BucketIndexLeft, a.BucketIndexRight, a.ChunkIndex,
               a.ChunkCnt>>
        y == <<b.TableIndex, b.BucketIndexLeft, b.BucketIndexRight, b.ChunkIndex,
               b.ChunkCnt>>
    IN  IF x = y THEN 0
        ELSE LET i == CHOOSE i \in 1..5 : x[i] # y[i] /\ \A j \in 1..(i - 1) : x[j] = y[j]
             IN  IF x[i] < y[i] THEN -1 ELSE 1

\* utils.GetSQLFileName: "%d:%d-%d:%d"
GetSQLFileName(id) ==
    Itoa(id.TableIndex) \o <<":">> \o Itoa(id.BucketIndexLeft) \o <<"-">>
        \o Itoa(id.BucketIndexRight) \o <<":">> \o Itoa(id.ChunkIndex)

\* utils.GetChunkIDFromSQLFileName: the inverse of GetSQLFileName
GetChunkIDFromSQLFileName(str) ==
    LET ids == Split(str, ":")
        bucket == IF Len(ids) >= 2 THEN Split(ids[2], "-") ELSE <<>>
        ok == /\ Len(ids) = 3 /\ Len(bucket) = 2
              /\ Atoi(ids[1]).ok /\ Atoi(bucket[1]).ok /\ Atoi(bucket[2]).ok
              /\ Atoi(ids[3]).ok
    IN  IF ok
        THEN [ok |-> TRUE, t |-> Atoi(ids[1]).val, l |-> Atoi(bucket[1]).val,
              r |-> Atoi(bucket[2]).val, i |-> Atoi(ids[3]).val]
        ELSE [ok |-> FALSE, t |-> 0, l |-> 0, r |-> 0, i |-> 0]

DotSql == <<".", "s", "q", "l">>
DotTrash == <<".", "t", "r", "a", "s", "h">>

\* the name writeSQLs gives the fix-SQL file of a chunk: "%s:%s:%s.sql"
FixSQLFileName(schema, table, id) ==
    schema \o <<":">> \o table \o <<":">> \o GetSQLFileName(id) \o DotSql

\* filepath.Join(dir, rel)
Join(dir, rel) == dir \o <<"/">> \o rel

\* f.Name(): the last element of the path
RECURSIVE BaseName(_)
BaseName(path) ==
    IF IndexOf(path, "/") = 0 THEN path
    ELSE BaseName(SubSeq(path, IndexOf(path, "/") + 1, Len(path)))

\* df.FixSQLDir
FixSQLDir == <<"f", "i", "x">>

\* the directory removeSQLFiles creates, ".trash-<time>", as a relative path
TrashDir == DotTrash \o <<"-", "n", "o", "w">>

\* what the walk function of removeSQLFiles does with the regular file at
\* relPath: "keep" (return nil), "move" (os.Rename into the trash directory)
\* or "error" (return the error, which ends the walk)
WalkFile(relPath, checkPointId) ==
    LET name == BaseName(relPath)
        oldPath == Join(FixSQLDir, relPath)
    IN  IF Contains(oldPath, DotTrash) THEN "keep"
        ELSE IF ~HasSuffix(name, DotSql) THEN "keep"
        ELSE LET fileIDStr == TrimRight(name, {".", "s", "q", "l"})
                 fileIDSubstrs == SplitN(fileIDStr, ":", 3)
             IN  IF Len(fileIDSubstrs) # 3 THEN "keep"
                 ELSE LET d == GetChunkIDFromSQLFileName(fileIDSubstrs[3])
                      IN  IF ~d.ok THEN "error"
                          ELSE IF Compare(ChunkID(d.t, d.l, d.r, d.i, 0), checkPointId) > 0
                               THEN "move"
                               ELSE "keep"

\* filepath.Walk over the regular files in walk order: what is left in
\* place, what was moved, and whether the walk ended with an error
RECURSIVE Walk(_, _, _)
Walk(todo, checkPointId, acc) ==
    IF todo = <<>> THEN acc
    ELSE LET what == WalkFile(Head(todo), checkPointId)
         IN  IF what = "error" THEN [acc EXCEPT !.err = TRUE]
             ELSE IF what = "move"
                  THEN Walk(Tail(todo), checkPointId,
                            [acc EXCEPT !.files = acc.files \ {Head(todo)},
                                        !.moved = acc.moved \cup {Join(TrashDir, Head(todo))}])
                  ELSE Walk(Tail(todo), checkPointId, acc)

\* the paths, relative to FixSQLDir, that may exist when removeSQLFiles runs,
\* in the lexical order filepath.Walk visits them
SchemaA == <<"a">>
TableT == <<"t">>
TableTrashy == <<"t">> \o DotTrash

WalkOrder ==
    << Join(DotTrash \o <<"-", "o", "l", "d">>,
            FixSQLFileName(SchemaA, TableT, ChunkID(0, 0, 0, 1, 2))),
       <<"a", ":", "t">> \o DotSql,
       FixSQLFileName(SchemaA, TableTrashy, ChunkID(0, 0, 0, 1, 2)),
       FixSQLFileName(SchemaA, TableT, ChunkID(0, 0, 0, 0, 2)),
       FixSQLFileName(SchemaA, TableT, ChunkID(0, 0, 0, 1, 2)),
       FixSQLFileName(SchemaA, TableT, ChunkID(1, 0, 0, 0, 1)),
       <<"a", ":", "t", ":", "x">> \o DotSql,
       FixSQLFileName(<<"b">>, TableT, ChunkID(2, 1, 2, 10, 11)),
       <<"n", "o", "t", "e", "s", ".", "t", "x", "t">> >>

Paths == {WalkOrder[i] : i \in 1..Len(WalkOrder)}

\* the checkpoint IDs initCheckpoint calls removeSQLFiles with: the ID of the
\* loaded node, or the ID below every chunk when there is no checkpoint file
Floors ==
    {ChunkID(-1, -1, -1, -1, 0), ChunkID(0, 0, 0, 0, 2), ChunkID(0, 0, 0, 1, 2),
     ChunkID(1, 0, 0, 0, 1), ChunkID(2, 1, 2, 10, 11)}

PurgeInit ==
    /\ pFiles \in SUBSET Paths
    /\ pBefore = pFiles
    /\ pFloor \in Floors
    /\ pErr = FALSE
    /\ ppc = "call"

\* removeSQLFiles(checkPointId)
RemoveSQLFiles ==
    /\ ppc = "call"
    /\ LET todo == SelectSeq(WalkOrder, LAMBDA q : q \in pFiles)
           res == Walk(todo, pFloor, [files |-> pFiles, moved |-> {}, err |-> FALSE])
       IN  /\ pFiles' = res.files \cup res.moved
           /\ pErr' = res.err
    /\ ppc' = "done"
    /\ UNCHANGED <<pBefore, pFloor>>
    /\ UNCHANGED nonPurgeVars

PurgeNext == RemoveSQLFiles

(***************************************************************************)
(* Continuous validation: IncrementalValidate reads the upstream binlog,   *)
(* rowsEventProcessRoutine accumulates row events into batches,            *)
(* validateGoRoutine validates each batch against the downstream and       *)
(* retryFailedRows validates the failed rows again.  One table with the    *)
(* columns c0 and c1, one of which is the primary key.                     *)
(***************************************************************************)
\* batchRowCount, scaled down
BatchRowCount == 2
\* how many row events the upstream writes
MaxEvents == 2
\* largest value of the column that is not the primary key
MaxPayload == 2
\* len(table.PrimaryKey.Columns)
NPkColumns == 1

\* the primary-key values of the table: integers that differ in digit count
PkValues == {2, 10}

\* the row (c0, c1) with primary key k and payload v
TableRow(k, v) == IF pkOffset = 0 THEN <<k, v>> ELSE <<v, k>>

\* the same row as the reconciler's order key and payload
KeyedRow(row) == [k |-> row[pkOffset + 1], v |-> row[2 - pkOffset]]

\* strings.Join
RECURSIVE StringsJoin(_, _)
StringsJoin(elems, sep) ==
    IF elems = <<>> THEN <<>>
    ELSE IF Len(elems) = 1 THEN elems[1]
    ELSE elems[1] \o sep \o StringsJoin(Tail(elems), sep)

\* the keys of a rows map: the formatted primary-key values
RowKeys == {Itoa(k) : k \in PkValues}

NoRows == [s \in RowKeys |-> Nil]

\* df.getRowCount
getRowCount(rows) == Cardinality({s \in RowKeys : rows[s] # Nil})

NoLast == [k \in PkValues |-> Nil]

\* getRowChangeType
rowInsert == "rowInsert"
rowDeleted == "rowDeleted"
rowUpdated == "rowUpdated"

\* processEventRows: what one row of an event does to the rowChange of its key
SetRowChangeKeepFirst(val, ok, row, changeType, ts) ==
    IF ok THEN val
    ELSE [pk |-> val.pk, data |-> row, theType |-> changeType, lastMeetTs |-> ts]

SetRowChange(val, ok, row, changeType, ts) ==
    [pk |-> val.pk, data |-> row, theType |-> changeType, lastMeetTs |-> ts]

\* processEventRows: the loop over e.Rows from index i (counted from 1) until
\* it ends ("done"), has to send a full batch ("send") or panics on pkValue[idx]
RECURSIVE ProcessRows(_, _, _, _)
ProcessRows(rows, last, e, i) ==
    LET step == IF e.theType = rowUpdated THEN 2 ELSE 1
    IN  IF i > Len(e.rows) THEN [rows |-> rows, last |-> last, idx |-> i, out |-> "done"]
        ELSE IF pkOffset >= NPkColumns
        THEN [rows |-> rows, last |-> last, idx |-> i, out |-> "panic"]
        ELSE LET row == e.rows[i]
                 pkValue == <<Itoa(row[pkOffset + 1])>>
                 key == StringsJoin(pkValue, <<"-">>)
                 ok == rows[key] # Nil
                 val == IF ok THEN rows[key] ELSE [pk |-> pkValue]
                 rows1 == [rows EXCEPT ![key] = SetRowChange(val, ok, row, e.theType, e.ts)]
                 last1 == [last EXCEPT ![KeyedRow(row).k] =
                              [data |-> row, theType |-> e.theType, lastMeetTs |-> e.ts]]
             IN  IF getRowCount(rows1) >= BatchRowCount
                 THEN [rows |-> rows1, last |-> last1, idx |-> i + step, out |-> "send"]
                 ELSE ProcessRows(rows1, last1, e, i + step)

\* index of the first row processEventRows looks at, counted from 1
FirstRow(e) == IF e.theType = rowUpdated THEN 2 ELSE 1

\* byte-wise < on strings of digits
RECURSIVE StringLess(_, _)
StringLess(a, b) ==
    IF b = <<>> THEN FALSE
    ELSE IF a = <<>> THEN TRUE
    ELSE IF a[1] = b[1] THEN StringLess(Tail(a), Tail(b))
    ELSE DigitVal(a[1]) < DigitVal(b[1])

\* the integers of S in ascending order
RECURSIVE Ascending(_)
Ascending(S) ==
    IF S = {} THEN <<>>
    ELSE LET m == CHOOSE x \in S : \A y \in S : x <= y
         IN  <<m>> \o Ascending(S \ {m})

\* sort.Slice of getRowChangeIterator: the changes ordered by the string r.pk
RECURSIVE SortByPk(_)
SortByPk(changes) ==
    IF changes = {} THEN <<>>
    ELSE LET m == CHOOSE x \in changes :
                      \A y \in changes \ {x} : StringLess(x.pk[1], y.pk[1])
         IN  <<m>> \o SortByPk(changes \ {m})

\* source.GetRows: the rows of T whose primary key is in cond.PkValues, sorted
\* by primary key
GetRows(T, pkValues) ==
    LET ks == {k \in PkValues : T[k] # 0 /\ <<Itoa(k)>> \in pkValues}
        sorted == Ascending(ks)
    IN  [i \in 1..Len(sorted) |-> TableRow(sorted[i], T[sorted[i]])]

\* getPkValues
getPkValues(data) == <<Itoa(KeyedRow(data).k)>>

\* the rowChanges of a rows map
ChangesOf(rows) == {rows[s] : s \in {t \in RowKeys : rows[t] # Nil}}

\* getRowChangeIterator: the rows of the changes, the changes sorted by the
\* strings of r.pk
getRowChangeIterator(changes) ==
    LET sorted == SortByPk(changes)
    IN  [i \in 1..Len(sorted) |-> sorted[i].data]

\* validateDeletedRows reporting every key it was asked about
validateDeletedRowsAllKeys(down, pkValues) == pkValues

\* validateDeletedRows: every row the downstream still has is a failure
validateDeletedRows(down, pkValues) ==
    LET rows == GetRows(down, pkValues)
    IN  {getPkValues(rows[i]) : i \in 1..Len(rows)}

\* validateInsertAndUpdateRows: the loop; U and D are what the iterators
\* still hold
RECURSIVE ValidateLoop(_, _, _, _, _)
ValidateLoop(U, D, lastUp, lastDown, failedRows) ==
    LET u == IF lastUp # Nil THEN lastUp ELSE IF U = <<>> THEN Nil ELSE Head(U)
        U1 == IF lastUp = Nil /\ U # <<>> THEN Tail(U) ELSE U
        d == IF lastDown # Nil THEN lastDown ELSE IF D = <<>> THEN Nil ELSE Head(D)
        D1 == IF lastDown = Nil /\ D # <<>> THEN Tail(D) ELSE D
    IN  IF u = Nil /\ d # Nil THEN failedRows
        ELSE IF d = Nil
        THEN failedRows
                \cup (IF u = Nil THEN {} ELSE {getPkValues(u)})
                \cup {getPkValues(U1[i]) : i \in 1..Len(U1)}
        ELSE LET c == CompareData(KeyedRow(u), KeyedRow(d))
             IN  IF c.eq THEN ValidateLoop(U1, D1, Nil, Nil, failedRows)
                 ELSE IF c.cmp = 1 THEN ValidateLoop(U1, D1, u, Nil, failedRows)
                 ELSE IF c.cmp = -1
                 THEN ValidateLoop(U1, D1, Nil, d, failedRows \cup {getPkValues(u)})
                 ELSE ValidateLoop(U1, D1, Nil, Nil, failedRows \cup {getPkValues(u)})

\* validateInsertAndUpdateRows merging with an empty downstream result
validateInsertAndUpdateRowsNoDownstream(up, down, changes, pkValues) ==
    LET upstreamRows == IF useBinlog THEN getRowChangeIterator(changes)
                        ELSE GetRows(up, pkValues)
    IN  ValidateLoop(upstreamRows, <<>>, Nil, Nil, {})

validateInsertAndUpdateRows(up, down, changes, pkValues) ==
    LET upstreamRows == IF useBinlog THEN getRowChangeIterator(changes)
                        ELSE GetRows(up, pkValues)
    IN  ValidateLoop(upstreamRows, GetRows(down, pkValues), Nil, Nil, {})

\* validateChanges
validateChanges(up, down, changes, deleteChange) ==
    LET pkValues == {r.pk : r \in changes}
    IN  IF deleteChange THEN validateDeletedRows(down, pkValues)
        ELSE validateInsertAndUpdateRows(up, down, changes, pkValues)

\* validateTableChange: the rows map of the changes that failed
validateTableChange(up, down, rows) ==
    LET deleteChanges == {r \in ChangesOf(rows) : r.theType = rowDeleted}
        insertUpdateChanges == ChangesOf(rows) \ deleteChanges
        failedRows ==
            (IF insertUpdateChanges # {}
             THEN validateChanges(up, down, insertUpdateChanges, FALSE) ELSE {})
            \cup (IF deleteChanges # {}
                  THEN validateChanges(up, down, deleteChanges, TRUE) ELSE {})
        failedKeys == {StringsJoin(pk, <<"-">>) : pk \in failedRows}
    IN  [s \in RowKeys |-> IF s \in failedKeys THEN rows[s] ELSE Nil]

\* updateFailedChanges without the removal of the batch's previous failures
updateFailedChangesKeepsOld(prev, all, failed) ==
    [s \in RowKeys |-> IF failed[s] # Nil THEN failed[s] ELSE prev[s]]

\* updateFailedChanges
updateFailedChanges(prev, all, failed) ==
    LET removed == {StringsJoin(r.pk, <<"-">>) : r \in ChangesOf(all)}
    IN  [s \in RowKeys |->
            IF failed[s] # Nil THEN failed[s]
            ELSE IF s \in removed THEN Nil
            ELSE prev[s]]

\* sequences of distinct primary-key values: the rows of one statement
KeySeqs ==
    {<<k>> : k \in PkValues}
        \cup {ks \in PkValues \X PkValues : ks[1] # ks[2]}

\* the indices of e.Rows that carry the rows as they are after the event
AfterIdx(e) == {i \in 1..Len(e.rows) : e.theType = rowUpdated => i % 2 = 0}

\* what a replica that applies event e makes of table T
ApplyEvent(T, e) ==
    [k \in PkValues |->
        IF \E i \in AfterIdx(e) : KeyedRow(e.rows[i]).k = k
        THEN IF e.theType = rowDeleted THEN 0
             ELSE KeyedRow(e.rows[CHOOSE i \in AfterIdx(e) : KeyedRow(e.rows[i]).k = k]).v
        ELSE T[k]]

NoBatch == [rows |-> NoRows, last |-> NoLast]

CAlive == cFatal = "no"

ContInit ==
    /\ pkOffset \in {0, 1}
    /\ useBinlog \in BOOLEAN
    /\ cUp \in {[k \in PkValues |-> 0], [k \in PkValues |-> 1]}
    /\ cDown = cUp
    /\ binlog = <<>> /\ synced = 0 /\ streamed = 0
    /\ ipc = "read" /\ iEvent = Nil
    /\ apc = "select" /\ aEvent = Nil /\ aIdx = 0
    /\ accumulatedChanges = NoRows /\ timerFired = FALSE /\ lastOf = NoLast
    /\ vpc = "select" /\ vBatch = NoBatch
    /\ failedChanges = NoRows
    /\ tpc = "pass"
    /\ cCancelled = FALSE /\ cFatal = "no"

\* a client writes the rows with keys ks upstream in one statement; the
\* upstream logs the row event
UpstreamInsert(ks) ==
    /\ CAlive /\ ~cCancelled /\ Len(binlog) < MaxEvents
    /\ \A i \in 1..Len(ks) : cUp[ks[i]] = 0
    /\ LET e == [theType |-> rowInsert, ts |-> Len(binlog) + 1,
                 rows |-> [i \in 1..Len(ks) |-> TableRow(ks[i], 1)]]
       IN  /\ binlog' = Append(binlog, e)
           /\ cUp' = ApplyEvent(cUp, e)
    /\ UNCHANGED <<pkOffset, useBinlog, cDown, synced, streamed, ipc, iEvent, apc, aEvent, aIdx,
                   accumulatedChanges, timerFired, lastOf, vpc, vBatch, failedChanges, tpc,
                   cCancelled, cFatal>>
    /\ UNCHANGED nonContVars

UpstreamUpdate(ks) ==
    /\ CAlive /\ ~cCancelled /\ Len(binlog) < MaxEvents
    /\ \A i \in 1..Len(ks) : cUp[ks[i]] # 0
    /\ LET e == [theType |-> rowUpdated, ts |-> Len(binlog) + 1,
                 rows |-> [i \in 1..(2 * Len(ks)) |->
                              LET k == ks[(i + 1) \div 2]
                              IN  IF i % 2 = 1 THEN TableRow(k, cUp[k])
                                  ELSE TableRow(k, (cUp[k] % MaxPayload) + 1)]]
       IN  /\ binlog' = Append(binlog, e)
           /\ cUp' = ApplyEvent(cUp, e)
    /\ UNCHANGED <<pkOffset, useBinlog, cDown, synced, streamed, ipc, iEvent, apc, aEvent, aIdx,
                   accumulatedChanges, timerFired, lastOf, vpc, vBatch, failedChanges, tpc,
                   cCancelled, cFatal>>
    /\ UNCHANGED nonContVars

UpstreamDelete(ks) ==
    /\ CAlive /\ ~cCancelled /\ Len(binlog) < MaxEvents
    /\ \A i \in 1..Len(ks) : cUp[ks[i]] # 0
    /\ LET e == [theType |-> rowDeleted, ts |-> Len(binlog) + 1,
                 rows |-> [i \in 1..Len(ks) |-> TableRow(ks[i], cUp[ks[i]])]]
       IN  /\ binlog' = Append(binlog, e)
           /\ cUp' = ApplyEvent(cUp, e)
    /\ UNCHANGED <<pkOffset, useBinlog, cDown, synced, streamed, ipc, iEvent, apc, aEvent, aIdx,
                   accumulatedChanges, timerFired, lastOf, vpc, vBatch, failedChanges, tpc,
                   cCancelled, cFatal>>
    /\ UNCHANGED nonContVars

\* the downstream applies the next event of the binlog
DownstreamSync ==
    /\ CAlive /\ synced < Len(binlog)
    /\ cDown' = ApplyEvent(cDown, binlog[synced + 1])
    /\ synced' = synced + 1
    /\ UNCHANGED <<pkOffset, useBinlog, cUp, binlog, streamed, ipc, iEvent, apc, aEvent, aIdx,
                   accumulatedChanges, timerFired, lastOf, vpc, vBatch, failedChanges, tpc,
                   cCancelled, cFatal>>
    /\ UNCHANGED nonContVars

\* IncrementalValidate: GetEvent returns the next row event; after the sleep
\* up to defaultDelay the loop stands at the send on rowsEventChan
IngestGetEvent ==
    /\ CAlive /\ ipc = "read" /\ streamed < Len(binlog)
    /\ iEvent' = binlog[streamed + 1]
    /\ streamed' = streamed + 1
    /\ ipc' = "send"
    /\ UNCHANGED <<pkOffset, useBinlog, cUp, cDown, binlog, synced, apc, aEvent, aIdx,
                   accumulatedChanges, timerFired, lastOf, vpc, vBatch, failedChanges, tpc,
                   cCancelled, cFatal>>
    /\ UNCHANGED nonContVars

\* IncrementalValidate: GetEvent(ctx) returns the error of the done context
IngestGetEventErr ==
    /\ CAlive /\ ipc = "read" /\ cCancelled
    /\ ipc' = "error"
    /\ UNCHANGED <<pkOffset, useBinlog, cUp, cDown, binlog, synced, streamed, iEvent, apc, aEvent,
                   aIdx, accumulatedChanges, timerFired, lastOf, vpc, vBatch, failedChanges, tpc,
                   cCancelled, cFatal>>
    /\ UNCHANGED nonContVars

\* IncrementalValidate: the error is logged and the loop continues
IngestContinue ==
    /\ CAlive /\ ipc = "error"
    /\ ipc' = "read"
    /\ UNCHANGED <<pkOffset, useBinlog, cUp, cDown, binlog, synced, streamed, iEvent, apc, aEvent,
                   aIdx, accumulatedChanges, timerFired, lastOf, vpc, vBatch, failedChanges, tpc,
                   cCancelled, cFatal>>
    /\ UNCHANGED nonContVars

\* IncrementalValidate: case <-ctx.Done() of the send on rowsEventChan
IngestCtxDone ==
    /\ CAlive /\ ipc = "send" /\ cCancelled
    /\ ipc' = "returned"
    /\ iEvent' = Nil
    /\ UNCHANGED <<pkOffset, useBinlog, cUp, cDown, binlog, synced, streamed, apc, aEvent, aIdx,
                   accumulatedChanges, timerFired, lastOf, vpc, vBatch, failedChanges, tpc,
                   cCancelled, cFatal>>
    /\ UNCHANGED nonContVars

\* what processEventRows leaves when its loop stopped with res
AfterRows(res, e) ==
    /\ accumulatedChanges' = res.rows
    /\ lastOf' = res.last
    /\ IF res.out = "send"
       THEN apc' = "send" /\ aEvent' = e /\ aIdx' = res.idx /\ cFatal' = cFatal
       ELSE /\ apc' = "select" /\ aEvent' = Nil /\ aIdx' = 0
            /\ cFatal' = IF res.out = "panic" THEN "index out of range" ELSE cFatal

\* rowsEventProcessRoutine: case e := <-df.rowsEventChan, processEventRows up
\* to its first send on pendingChangeCh
ProcessEvent ==
    /\ CAlive /\ apc = "select" /\ ipc = "send"
    /\ ipc' = "read"
    /\ iEvent' = Nil
    /\ AfterRows(ProcessRows(accumulatedChanges, lastOf, iEvent, FirstRow(iEvent)), iEvent)
    /\ UNCHANGED <<pkOffset, useBinlog, cUp, cDown, binlog, synced, streamed, timerFired, vpc,
                   vBatch, failedChanges, tpc, cCancelled>>
    /\ UNCHANGED nonContVars

\* processEventRows: the send of the full batch on pendingChangeCh meets the
\* receive of validateGoRoutine; the timer is reset and the loop goes on
ProcessSend ==
    /\ CAlive /\ apc = "send" /\ vpc = "select"
    /\ vpc' = "validate"
    /\ vBatch' = [rows |-> accumulatedChanges, last |-> lastOf]
    /\ timerFired' = FALSE
    /\ AfterRows(ProcessRows(NoRows, NoLast, aEvent, aIdx), aEvent)
    /\ UNCHANGED <<pkOffset, useBinlog, cUp, cDown, binlog, synced, streamed, ipc, iEvent,
                   failedChanges, tpc, cCancelled>>
    /\ UNCHANGED nonContVars

\* df.validationTimer fires
TimerFire ==
    /\ CAlive /\ ~timerFired /\ apc \in {"select", "send"}
    /\ timerFired' = TRUE
    /\ UNCHANGED <<pkOffset, useBinlog, cUp, cDown, binlog, synced, streamed, ipc, iEvent, apc,
                   aEvent, aIdx, accumulatedChanges, lastOf, vpc, vBatch, failedChanges, tpc,
                   cCancelled, cFatal>>
    /\ UNCHANGED nonContVars

\* the timer case without the test rowCount > 0
TimerCaseSendsEmpty ==
    /\ CAlive /\ apc = "select" /\ timerFired
    /\ timerFired' = FALSE
    /\ apc' = "sendTimer"
    /\ UNCHANGED <<pkOffset, useBinlog, cUp, cDown, binlog, synced, streamed, ipc, iEvent, aEvent,
                   aIdx, accumulatedChanges, lastOf, vpc, vBatch, failedChanges, tpc, cCancelled,
                   cFatal>>
    /\ UNCHANGED nonContVars

\* rowsEventProcessRoutine: case <-df.validationTimer.C
TimerCase ==
    /\ CAlive /\ apc = "select" /\ timerFired
    /\ timerFired' = FALSE
    /\ apc' = IF getRowCount(accumulatedChanges) > 0 THEN "sendTimer" ELSE "select"
    /\ UNCHANGED <<pkOffset, useBinlog, cUp, cDown, binlog, synced, streamed, ipc, iEvent, aEvent,
                   aIdx, accumulatedChanges, lastOf, vpc, vBatch, failedChanges, tpc, cCancelled,
                   cFatal>>
    /\ UNCHANGED nonContVars

\* rowsEventProcessRoutine: the send of the timer case meets the receive of
\* validateGoRoutine; the timer is reset
TimerSend ==
    /\ CAlive /\ apc = "sendTimer" /\ vpc = "select"
    /\ vpc' = "validate"
    /\ vBatch' = [rows |-> accumulatedChanges, last |-> lastOf]
    /\ accumulatedChanges' = NoRows
    /\ lastOf' = NoLast
    /\ apc' = "select"
    /\ UNCHANGED <<pkOffset, useBinlog, cUp, cDown, binlog, synced, streamed, ipc, iEvent, aEvent,
                   aIdx, timerFired, failedChanges, tpc, cCancelled, cFatal>>
    /\ UNCHANGED nonContVars

\* rowsEventProcessRoutine: case <-ctx.Done()
ProcessCtxDone ==
    /\ CAlive /\ apc = "select" /\ cCancelled
    /\ apc' = "returned"
    /\ UNCHANGED <<pkOffset, useBinlog, cUp, cDown, binlog, synced, streamed, ipc, iEvent, aEvent,
                   aIdx, accumulatedChanges, timerFired, lastOf, vpc, vBatch, failedChanges, tpc,
                   cCancelled, cFatal>>
    /\ UNCHANGED nonContVars

\* validateGoRoutine: the batch it received is validated under the lock and
\* the row count of df.failedChanges is stored in df.failedRowCnt
Validate ==
    /\ CAlive /\ vpc = "validate"
    /\ failedChanges' =
          updateFailedChanges(failedChanges, vBatch.rows,
                              validateTableChange(cUp, cDown, vBatch.rows))
    /\ failedRowCnt' = getRowCount(failedChanges')
    /\ vpc' = "select"
    /\ vBatch' = NoBatch
    /\ UNCHANGED <<pkOffset, useBinlog, cUp, cDown, binlog, synced, streamed, ipc, iEvent, apc,
                   aEvent, aIdx, accumulatedChanges, timerFired, lastOf, tpc, cCancelled, cFatal>>
    /\ UNCHANGED nonPassVars

\* validateChanges: a query under the done context fails and the error panics
ValidatePanic ==
    /\ CAlive /\ vpc = "validate" /\ cCancelled
    /\ cFatal' = "context canceled"
    /\ UNCHANGED <<pkOffset, useBinlog, cUp, cDown, binlog, synced, streamed, ipc, iEvent, apc,
                   aEvent, aIdx, accumulatedChanges, timerFired, lastOf, vpc, vBatch,
                   failedChanges, tpc, cCancelled>>
    /\ UNCHANGED nonContVars

\* validateGoRoutine: case <-ctx.Done()
ValidateCtxDone ==
    /\ CAlive /\ vpc = "select" /\ cCancelled
    /\ vpc' = "returned"
    /\ UNCHANGED <<pkOffset, useBinlog, cUp, cDown, binlog, synced, streamed, ipc, iEvent, apc,
                   aEvent, aIdx, accumulatedChanges, timerFired, lastOf, vBatch, failedChanges,
                   tpc, cCancelled, cFatal>>
    /\ UNCHANGED nonContVars

\* retryFailedRows: a pass over df.failedChanges that leaves df.failedRowCnt
\* as it was
RetryPassNoStore ==
    /\ CAlive /\ tpc = "pass"
    /\ failedChanges' = validateTableChange(cUp, cDown, failedChanges)
    /\ tpc' = "wait"
    /\ UNCHANGED <<pkOffset, useBinlog, cUp, cDown, binlog, synced, streamed, ipc, iEvent, apc,
                   aEvent, aIdx, accumulatedChanges, timerFired, lastOf, vpc, vBatch, cCancelled,
                   cFatal>>
    /\ UNCHANGED nonContVars

\* retryFailedRows: one pass over df.failedChanges under the lock, and the
\* store of its row count in df.failedRowCnt
RetryPass ==
    /\ CAlive /\ tpc = "pass"
    /\ failedChanges' = validateTableChange(cUp, cDown, failedChanges)
    /\ failedRowCnt' = getRowCount(failedChanges')
    /\ tpc' = "wait"
    /\ UNCHANGED <<pkOffset, useBinlog, cUp, cDown, binlog, synced, streamed, ipc, iEvent, apc,
                   aEvent, aIdx, accumulatedChanges, timerFired, lastOf, vpc, vBatch, cCancelled,
                   cFatal>>
    /\ UNCHANGED nonPassVars

\* retryFailedRows: a query of the pass fails under the done context
RetryPanic ==
    /\ CAlive /\ tpc = "pass" /\ cCancelled /\ getRowCount(failedChanges) > 0
    /\ cFatal' = "context canceled"
    /\ UNCHANGED <<pkOffset, useBinlog, cUp, cDown, binlog, synced, streamed, ipc, iEvent, apc,
                   aEvent, aIdx, accumulatedChanges, timerFired, lastOf, vpc, vBatch,
                   failedChanges, tpc, cCancelled>>
    /\ UNCHANGED nonContVars

\* retryFailedRows: case <-time.After(retryInterval)
RetryAgain ==
    /\ CAlive /\ tpc = "wait"
    /\ tpc' = "pass"
    /\ UNCHANGED <<pkOffset, useBinlog, cUp, cDown, binlog, synced, streamed, ipc, iEvent, apc,
                   aEvent, aIdx, accumulatedChanges, timerFired, lastOf, vpc, vBatch,
                   failedChanges, cCancelled, cFatal>>
    /\ UNCHANGED nonContVars

\* retryFailedRows: case <-ctx.Done()
RetryCtxDone ==
    /\ CAlive /\ tpc = "wait" /\ cCancelled
    /\ tpc' = "returned"
    /\ UNCHANGED <<pkOffset, useBinlog, cUp, cDown, binlog, synced, streamed, ipc, iEvent, apc,
                   aEvent, aIdx, accumulatedChanges, timerFired, lastOf, vpc, vBatch,
                   failedChanges, cCancelled, cFatal>>
    /\ UNCHANGED nonContVars

\* the context of IncrementalValidate is cancelled
ContCancel ==
    /\ CAlive /\ ~cCancelled
    /\ cCancelled' = TRUE
    /\ UNCHANGED <<pkOffset, useBinlog, cUp, cDown, binlog, synced, streamed, ipc, iEvent, apc,
                   aEvent, aIdx, accumulatedChanges, timerFired, lastOf, vpc, vBatch,
                   failedChanges, tpc, cFatal>>
    /\ UNCHANGED nonContVars

ContNext ==
    \/ \E ks \in KeySeqs : UpstreamInsert(ks)
    \/ \E ks \in KeySeqs : UpstreamUpdate(ks)
    \/ \E ks \in KeySeqs : UpstreamDelete(ks)
    \/ DownstreamSync
    \/ IngestGetEvent \/ IngestGetEventErr \/ IngestContinue \/ IngestCtxDone
    \/ ProcessEvent \/ ProcessSend \/ TimerFire \/ TimerCase \/ TimerSend \/ ProcessCtxDone
    \/ Validate \/ ValidatePanic \/ ValidateCtxDone
    \/ RetryPass \/ RetryPanic \/ RetryAgain \/ RetryCtxDone
    \/ ContCancel

(***************************************************************************)
(* The lock of the Diff aggregate.  The three goroutines of continuous     *)
(* validation run statement by statement; a batch and df.failedChanges are  *)
(* the sets of their keys, and what a pass of queries finds failed is any   *)
(* subset of the keys it asked for.                                        *)
(***************************************************************************)
NoHolder == [writer |-> "none", readers |-> {}]

\* the statements of validateGoRoutine between df.Lock() and df.Unlock()
ValidatorPass == {"validate", "update", "store", "sub", "unlock"}
\* the statements of retryFailedRows between df.Lock() and df.Unlock()
RetryPassPcs == {"validate", "store", "unlock"}

LockInit ==
    /\ dfMu = NoHolder
    /\ lapc = "select" /\ lAcc = {}
    /\ lvpc = "select" /\ lChange = {} /\ lFailed = {}
    /\ ltpc = "lock" /\ lFailedChanges = {}
    /\ pendingRowCnt = 0 /\ failedRowCnt = 0
    /\ lActor = "none"

LockIdle ==
    /\ dfMu = NoHolder
    /\ lapc = "idle" /\ lAcc = {}
    /\ lvpc = "idle" /\ lChange = {} /\ lFailed = {}
    /\ ltpc = "idle" /\ lFailedChanges = {}
    /\ pendingRowCnt = 0 /\ failedRowCnt = 0
    /\ lActor = "none"

\* processEventRows counting every row of every event
LockProcessRowPerEvent(k) ==
    /\ lapc = "select"
    /\ lAcc' = lAcc \cup {k}
    /\ pendingRowCnt' = pendingRowCnt + 1
    /\ lapc' = IF Cardinality(lAcc') >= BatchRowCount THEN "send" ELSE "select"
    /\ lActor' = "processor"
    /\ UNCHANGED <<dfMu, lvpc, lChange, lFailed, ltpc, lFailedChanges, failedRowCnt>>
    /\ UNCHANGED nonLockVars

\* processEventRows: a row whose key is new to the open batch is added and
\* df.pendingRowCnt.Inc() counts it, a row whose key the batch has replaces
\* that entry; the batch is sent once it is full
LockProcessRow(k) ==
    /\ lapc = "select"
    /\ lAcc' = lAcc \cup {k}
    /\ pendingRowCnt' = IF k \in lAcc THEN pendingRowCnt ELSE pendingRowCnt + 1
    /\ lapc' = IF Cardinality(lAcc') >= BatchRowCount THEN "send" ELSE "select"
    /\ lActor' = "processor"
    /\ UNCHANGED <<dfMu, lvpc, lChange, lFailed, ltpc, lFailedChanges, failedRowCnt>>
    /\ UNCHANGED nonLockVars

\* rowsEventProcessRoutine: case <-df.validationTimer.C with rows accumulated
LockTimerCase ==
    /\ lapc = "select" /\ lAcc # {}
    /\ lapc' = "send"
    /\ lActor' = "processor"
    /\ UNCHANGED <<dfMu, lAcc, lvpc, lChange, lFailed, ltpc, lFailedChanges, pendingRowCnt,
                   failedRowCnt>>
    /\ UNCHANGED nonLockVars

\* df.pendingChangeCh <- df.accumulatedChanges meets case change := <-df.pendingChangeCh
LockProcessSend ==
    /\ lapc = "send" /\ lvpc = "select"
    /\ lChange' = lAcc
    /\ lAcc' = {}
    /\ lapc' = "select"
    /\ lvpc' = "lock"
    /\ lActor' = "processor"
    /\ UNCHANGED <<dfMu, lFailed, ltpc, lFailedChanges, pendingRowCnt, failedRowCnt>>
    /\ UNCHANGED nonLockVars

\* validateGoRoutine going on without df.Lock()
LockValidatorNoLock ==
    /\ lvpc = "lock"
    /\ lvpc' = "validate"
    /\ lActor' = "validator"
    /\ UNCHANGED <<dfMu, lapc, lAcc, lChange, lFailed, ltpc, lFailedChanges, pendingRowCnt,
                   failedRowCnt>>
    /\ UNCHANGED nonLockVars

\* validateGoRoutine: df.Lock()
LockValidatorLock ==
    /\ lvpc = "lock" /\ dfMu = NoHolder
    /\ dfMu' = [dfMu EXCEPT !.writer = "validator"]
    /\ lvpc' = "validate"
    /\ lActor' = "validator"
    /\ UNCHANGED <<lapc, lAcc, lChange, lFailed, ltpc, lFailedChanges, pendingRowCnt,
                   failedRowCnt>>
    /\ UNCHANGED nonLockVars

\* validateGoRoutine: failed := df.validateTableChange(ctx, change)
LockValidatorValidate ==
    /\ lvpc = "validate"
    /\ \E f \in SUBSET lChange : lFailed' = f
    /\ lvpc' = "update"
    /\ lActor' = "validator"
    /\ UNCHANGED <<dfMu, lapc, lAcc, lChange, ltpc, lFailedChanges, pendingRowCnt, failedRowCnt>>
    /\ UNCHANGED nonLockVars

\* validateGoRoutine: df.updateFailedChanges(change, failed)
LockValidatorUpdate ==
    /\ lvpc = "update"
    /\ lFailedChanges' = (lFailedChanges \ lChange) \cup lFailed
    /\ lvpc' = "store"
    /\ lActor' = "validator"
    /\ UNCHANGED <<dfMu, lapc, lAcc, lChange, lFailed, ltpc, pendingRowCnt, failedRowCnt>>
    /\ UNCHANGED nonLockVars

\* validateGoRoutine: df.failedRowCnt.Store(getRowCount(df.failedChanges))
LockValidatorStore ==
    /\ lvpc = "store"
    /\ failedRowCnt' = Cardinality(lFailedChanges)
    /\ lvpc' = "sub"
    /\ lActor' = "validator"
    /\ UNCHANGED <<dfMu, lapc, lAcc, lChange, lFailed, ltpc, lFailedChanges, pendingRowCnt>>
    /\ UNCHANGED nonLockVars

\* validateGoRoutine: df.pendingRowCnt.Sub(getRowCount(change))
LockValidatorSub ==
    /\ lvpc = "sub"
    /\ pendingRowCnt' = pendingRowCnt - Cardinality(lChange)
    /\ lvpc' = "unlock"
    /\ lActor' = "validator"
    /\ UNCHANGED <<dfMu, lapc, lAcc, lChange, lFailed, ltpc, lFailedChanges, failedRowCnt>>
    /\ UNCHANGED nonLockVars

\* validateGoRoutine: df.Unlock(), back to the select
LockValidatorUnlock ==
    /\ lvpc = "unlock"
    /\ dfMu' = [dfMu EXCEPT !.writer = "none"]
    /\ lChange' = {} /\ lFailed' = {}
    /\ lvpc' = "select"
    /\ lActor' = "validator"
    /\ UNCHANGED <<lapc, lAcc, ltpc, lFailedChanges, pendingRowCnt, failedRowCnt>>
    /\ UNCHANGED nonLockVars

\* retryFailedRows: df.Lock()
LockRetryLock ==
    /\ ltpc = "lock" /\ dfMu = NoHolder
    /\ dfMu' = [dfMu EXCEPT !.writer = "retry"]
    /\ ltpc' = "validate"
    /\ lActor' = "retry"
    /\ UNCHANGED <<lapc, lAcc, lvpc, lChange, lFailed, lFailedChanges, pendingRowCnt,
                   failedRowCnt>>
    /\ UNCHANGED nonLockVars

\* retryFailedRows: df.failedChanges = df.validateTableChange(ctx, df.failedChanges)
LockRetryValidate ==
    /\ ltpc = "validate"
    /\ \E f \in SUBSET lFailedChanges : lFailedChanges' = f
    /\ ltpc' = "store"
    /\ lActor' = "retry"
    /\ UNCHANGED <<dfMu, lapc, lAcc, lvpc, lChange, lFailed, pendingRowCnt, failedRowCnt>>
    /\ UNCHANGED nonLockVars

\* retryFailedRows: df.failedRowCnt.Store(getRowCount(df.failedChanges))
LockRetryStore ==
    /\ ltpc = "store"
    /\ failedRowCnt' = Cardinality(lFailedChanges)
    /\ ltpc' = "unlock"
    /\ lActor' = "retry"
    /\ UNCHANGED <<dfMu, lapc, lAcc, lvpc, lChange, lFailed, lFailedChanges, pendingRowCnt>>
    /\ UNCHANGED nonLockVars

\* retryFailedRows: df.Unlock()
LockRetryUnlock ==
    /\ ltpc = "unlock"
    /\ dfMu' = [dfMu EXCEPT !.writer = "none"]
    /\ ltpc' = "rlock"
    /\ lActor' = "retry"
    /\ UNCHANGED <<lapc, lAcc, lvpc, lChange, lFailed, lFailedChanges, pendingRowCnt,
                   failedRowCnt>>
    /\ UNCHANGED nonLockVars

\* getContinueValidationSummary: df.RLock()
LockSummaryRLock ==
    /\ ltpc = "rlock" /\ dfMu.writer = "none"
    /\ dfMu' = [dfMu EXCEPT !.readers = @ \cup {"retry"}]
    /\ ltpc' = "summary"
    /\ lActor' = "retry"
    /\ UNCHANGED <<lapc, lAcc, lvpc, lChange, lFailed, lFailedChanges, pendingRowCnt,
                   failedRowCnt>>
    /\ UNCHANGED nonLockVars

\* getContinueValidationSummary: the loop over df.failedChanges, then the
\* deferred df.RUnlock(); the summary is printed and the select is reached
LockSummaryRead ==
    /\ ltpc = "summary"
    /\ dfMu' = [dfMu EXCEPT !.readers = @ \ {"retry"}]
    /\ ltpc' = "wait"
    /\ lActor' = "retry"
    /\ UNCHANGED <<lapc, lAcc, lvpc, lChange, lFailed, lFailedChanges, pendingRowCnt,
                   failedRowCnt>>
    /\ UNCHANGED nonLockVars

\* retryFailedRows: case <-time.After(retryInterval)
LockRetryAgain ==
    /\ ltpc = "wait"
    /\ ltpc' = "lock"
    /\ lActor' = "retry"
    /\ UNCHANGED <<dfMu, lapc, lAcc, lvpc, lChange, lFailed, lFailedChanges, pendingRowCnt,
                   failedRowCnt>>
    /\ UNCHANGED nonLockVars

LockNext ==
    \/ \E k \in PkValues : LockProcessRow(k)
    \/ LockTimerCase \/ LockProcessSend
    \/ LockValidatorLock \/ LockValidatorValidate \/ LockValidatorUpdate
    \/ LockValidatorStore \/ LockValidatorSub \/ LockValidatorUnlock
    \/ LockRetryLock \/ LockRetryValidate \/ LockRetryStore \/ LockRetryUnlock
    \/ LockSummaryRLock \/ LockSummaryRead \/ LockRetryAgain

(***************************************************************************)
(* The ingest loop of IncrementalValidate.  Time runs in ticks; the        *)
(* upstream writes its events to log files 1, 2, ...; every event takes one *)
(* unit of its file, so an event's LogPos is its number in its file and a   *)
(* file starts at offset 0.  A stream opened at (name, pos) first yields    *)
(* the rotate event the master makes up for the start of a stream (LogPos   *)
(* 0, timestamp 0) and then the events of the file from the offset on.      *)
(***************************************************************************)
\* ticks in a second
TicksPerSecond == 2
\* defaultDelay in seconds (5 in the source, scaled down)
DefaultDelay == 1
\* how many ticks the clock runs
MaxTicks == 5
\* how many events the upstream logs
MaxLogEvents == 2
\* how many log files the upstream writes
MaxFiles == 2
\* how many times GetEvent fails with ER_MASTER_FATAL_ERROR_READING_BINLOG
MaxFatals == 1
\* how many times StartSync fails
MaxFails == 1
StartNow == DefaultDelay * TicksPerSecond

FileSize(f) == Cardinality({i \in 1..Len(gLog) : gLog[i].file = f})
FilesBefore(f) == Cardinality({i \in 1..Len(gLog) : gLog[i].file < f})

\* the gLog index a stream opened at (name, pos) stands at; an empty name is
\* the first file, an offset beyond the file is refused by the master (-1)
StartIndex(name, pos) ==
    LET f == IF name = 0 THEN 1 ELSE name
    IN  IF pos <= FileSize(f) THEN FilesBefore(f) + pos ELSE -1

\* binlogSyncer.StartSync(pos) / StartSyncGTID of the empty set
OpenStream(name, pos) ==
    [name |-> IF name = 0 THEN 1 ELSE name, fake |-> TRUE, at |-> StartIndex(name, pos)]

\* the rotate event that opens a stream
FakeRotate(name) ==
    [kind |-> "rotate", idx |-> 0, file |-> name, logPos |-> 0, next |-> name, ts |-> 0]

\* the event the next GetEvent returns
NextEvent == IF gStream.fake THEN FakeRotate(gStream.name) ELSE gLog[gStream.at + 1]

\* lag := time.Now().Sub(eventTime), in ticks
Lag(e) == now - e.ts * TicksPerSecond

\* the sleep of the loop that never sleeps
SleepForNever(lag) == 0

\* if lag < defaultDelay { time.Sleep(defaultDelay - lag) }: how long the loop sleeps
SleepFor(lag) ==
    IF lag < DefaultDelay * TicksPerSecond THEN DefaultDelay * TicksPerSecond - lag ELSE 0

IngInit ==
    /\ now = StartNow
    /\ gLog = <<>> /\ gFile = 1
    /\ gpc = "read" /\ gEvent = Nil /\ gWake = 0
    /\ latestPos = [name |-> 0, pos |-> 0]
    /\ gStream = [name |-> 1, fake |-> TRUE, at |-> 0]
    /\ gHandled = 0 /\ gRouted = {}
    /\ gFatals = 0 /\ gFails = 0

IngIdle ==
    /\ now = 0
    /\ gLog = <<>> /\ gFile = 1
    /\ gpc = "idle" /\ gEvent = Nil /\ gWake = 0
    /\ latestPos = [name |-> 0, pos |-> 0]
    /\ gStream = [name |-> 1, fake |-> TRUE, at |-> 0]
    /\ gHandled = 0 /\ gRouted = {}
    /\ gFatals = 0 /\ gFails = 0

\* the clock
Tick ==
    /\ now < StartNow + MaxTicks
    /\ now' = now + 1
    /\ UNCHANGED <<gLog, gFile, gpc, gEvent, gWake, latestPos, gStream, gHandled, gRouted,
                   gFatals, gFails>>
    /\ UNCHANGED nonIngVars

\* the upstream logs a row event or a query event; its clock may be ahead by
\* skew seconds
LogAppend(kind, skew) ==
    /\ Len(gLog) < MaxLogEvents
    /\ gLog' = Append(gLog, [kind |-> kind, idx |-> Len(gLog) + 1, file |-> gFile,
                             logPos |-> FileSize(gFile) + 1, next |-> 0,
                             ts |-> (now \div TicksPerSecond) + skew])
    /\ UNCHANGED <<now, gFile, gpc, gEvent, gWake, latestPos, gStream, gHandled, gRouted,
                   gFatals, gFails>>
    /\ UNCHANGED nonIngVars

\* the upstream ends its log file with a rotate event and starts the next
LogRotate ==
    /\ Len(gLog) < MaxLogEvents /\ gFile < MaxFiles
    /\ gLog' = Append(gLog, [kind |-> "rotate", idx |-> Len(gLog) + 1, file |-> gFile,
                             logPos |-> FileSize(gFile) + 1, next |-> gFile + 1,
                             ts |-> now \div TicksPerSecond])
    /\ gFile' = gFile + 1
    /\ UNCHANGED <<now, gpc, gEvent, gWake, latestPos, gStream, gHandled, gRouted, gFatals,
                   gFails>>
    /\ UNCHANGED nonIngVars

\* the switch on e.Event and latestPos.Pos = e.Header.LogPos; a row event
\* stands at the send on rowsEventChan first
Handle(e) ==
    IF e.kind = "rows"
    THEN /\ gpc' = "send" /\ gEvent' = e
         /\ UNCHANGED <<latestPos, gHandled>>
    ELSE /\ gpc' = "read" /\ gEvent' = Nil
         /\ latestPos' = [name |-> IF e.kind = "rotate" THEN e.next ELSE latestPos.name,
                          pos |-> e.logPos]
         /\ gHandled' = IF e.idx > 0 THEN e.idx ELSE gHandled

\* binlogStreamer.GetEvent returns an event; the loop sleeps or handles it
IngGetEvent ==
    /\ gpc = "read" /\ gStream.at >= 0
    /\ gStream.fake \/ gStream.at < Len(gLog)
    /\ LET e == NextEvent
       IN  /\ gStream' = IF gStream.fake THEN [gStream EXCEPT !.fake = FALSE]
                         ELSE [gStream EXCEPT !.at = @ + 1]
           /\ IF SleepFor(Lag(e)) > 0
              THEN /\ gpc' = "sleep" /\ gEvent' = e
                   /\ gWake' = now + SleepFor(Lag(e))
                   /\ UNCHANGED <<latestPos, gHandled>>
              ELSE /\ Handle(e)
                   /\ UNCHANGED gWake
    /\ UNCHANGED <<now, gLog, gFile, gRouted, gFatals, gFails>>
    /\ UNCHANGED nonIngVars

\* time.Sleep(defaultDelay - lag) is over
IngWake ==
    /\ gpc = "sleep" /\ now >= gWake
    /\ Handle(gEvent)
    /\ UNCHANGED <<now, gLog, gFile, gWake, gStream, gRouted, gFatals, gFails>>
    /\ UNCHANGED nonIngVars

\* case df.rowsEventChan <- e, then latestPos.Pos = e.Header.LogPos
IngSend ==
    /\ gpc = "send"
    /\ gRouted' = gRouted \cup {gEvent.idx}
    /\ latestPos' = [latestPos EXCEPT !.pos = gEvent.logPos]
    /\ gHandled' = gEvent.idx
    /\ gpc' = "read" /\ gEvent' = Nil
    /\ UNCHANGED <<now, gLog, gFile, gWake, gStream, gFatals, gFails>>
    /\ UNCHANGED nonIngVars

\* GetEvent fails with ER_MASTER_FATAL_ERROR_READING_BINLOG, as it does on a
\* stream whose position the master refused; binlogSyncer.Close()
IngGetEventFatal ==
    /\ gpc = "read"
    /\ gStream.at = -1 \/ gFatals < MaxFatals
    /\ gFatals' = IF gStream.at = -1 THEN gFatals ELSE gFatals + 1
    /\ gpc' = "reopen"
    /\ UNCHANGED <<now, gLog, gFile, gEvent, gWake, latestPos, gStream, gHandled, gRouted,
                   gFails>>
    /\ UNCHANGED nonIngVars

\* StartSync(latestPos) fails: Close, time.Sleep(time.Second)
IngReopenFail ==
    /\ gpc = "reopen" /\ gFails < MaxFails
    /\ gFails' = gFails + 1
    /\ gpc' = "backoff"
    /\ gWake' = now + TicksPerSecond
    /\ UNCHANGED <<now, gLog, gFile, gEvent, latestPos, gStream, gHandled, gRouted, gFatals>>
    /\ UNCHANGED nonIngVars

\* the second is over: continue with the next StartSync
IngBackoffOver ==
    /\ gpc = "backoff" /\ now >= gWake
    /\ gpc' = "reopen"
    /\ UNCHANGED <<now, gLog, gFile, gEvent, gWake, latestPos, gStream, gHandled, gRouted,
                   gFatals, gFails>>
    /\ UNCHANGED nonIngVars

\* StartSync(latestPos) succeeds: break, continue with GetEvent
IngReopen ==
    /\ gpc = "reopen"
    /\ gStream' = OpenStream(latestPos.name, latestPos.pos)
    /\ gpc' = "read"
    /\ UNCHANGED <<now, gLog, gFile, gEvent, gWake, latestPos, gHandled, gRouted, gFatals,
                   gFails>>
    /\ UNCHANGED nonIngVars

IngNext ==
    \/ Tick
    \/ \E kind \in {"rows", "query"}, skew \in {0, 1} : LogAppend(kind, skew)
    \/ LogRotate
    \/ IngGetEvent \/ IngWake \/ IngSend
    \/ IngGetEventFatal \/ IngReopenFail \/ IngBackoffOver \/ IngReopen

(***************************************************************************)
(* Specifications.  Each one runs one part of the program and holds the    *)
(* variables of the other parts still.                                     *)
(***************************************************************************)
vars == <<pipeVars, rowVars, binVars, purgeVars, contVars, lockVars, ingVars>>

RowsIdle ==
    /\ rUp = [k \in Keys |-> 0] /\ rDown = [k \in Keys |-> 0] /\ rFail = NoFail
    /\ rRes = NoRes /\ rFixed = rDown /\ rRes2 = NoRes /\ rpc = "idle"

PipeIdle ==
    /\ PipeInit /\ exportFixSQL = FALSE /\ pathHasTrash = FALSE

BinIdle ==
    /\ bWork = "up" /\ bIndex = "none"
    /\ bUp = [k \in BinKeys |-> 0] /\ bDown = [k \in BinKeys |-> 0]
    /\ bLo = 1 /\ bHi = MaxBinKey + 1 /\ bCount = 0 /\ bMid = 0
    /\ bR1 = NoSum /\ bR2 = NoSum /\ bpc = "idle" /\ bRes = Nil
    /\ bChunk = <<bLo, bHi>> /\ bInfo = Nil /\ bWritten = FALSE

PurgeIdle ==
    /\ pFiles = {} /\ pBefore = {} /\ pFloor = ChunkID(-1, -1, -1, -1, 0)
    /\ pErr = FALSE /\ ppc = "idle"

ContIdle ==
    /\ pkOffset = 0 /\ useBinlog = FALSE
    /\ cUp = [k \in PkValues |-> 0] /\ cDown = cUp
    /\ binlog = <<>> /\ synced = 0 /\ streamed = 0
    /\ ipc = "idle" /\ iEvent = Nil
    /\ apc = "idle" /\ aEvent = Nil /\ aIdx = 0
    /\ accumulatedChanges = NoRows /\ timerFired = FALSE /\ lastOf = NoLast
    /\ vpc = "idle" /\ vBatch = NoBatch
    /\ failedChanges = NoRows
    /\ tpc = "idle"
    /\ cCancelled = FALSE /\ cFatal = "no"

\* the batch pipeline of one process run
Init == PipeInit /\ ~pathHasTrash /\ RowsIdle /\ BinIdle /\ PurgeIdle /\ ContIdle /\ LockIdle /\ IngIdle

Next ==
    \/ EqualStart \/ EqualStartFail \/ EqualApply \/ EqualLeaveLoop
    \/ DeferWaitPool \/ DeferClose \/ DeferWaitSql \/ DeferStop \/ DeferWaitCp
    \/ \E c \in Chunks : Consume(c)
    \/ \E c \in Chunks : ConsumeSend(c)
    \/ WriterRecv \/ WriterChannelClosed \/ WriterCtxDone
    \/ WriterCreate \/ WriterWrite \/ WriterInsert
    \/ CpTimerFlush \/ CpCtxDone \/ CpFinalFlush
    \/ Cancel

Spec == Init /\ [][Next]_vars

\* the batch pipeline where every goroutine that can take a step eventually
\* takes it: the Go scheduler runs every runnable goroutine, and a select
\* whose ctx.Done() case stays ready eventually takes it
PipeFairness ==
    /\ WF_vars(EqualStart) /\ WF_vars(EqualStartFail)
    /\ WF_vars(EqualApply) /\ WF_vars(EqualLeaveLoop)
    /\ WF_vars(DeferWaitPool) /\ WF_vars(DeferClose) /\ WF_vars(DeferWaitSql)
    /\ WF_vars(DeferStop) /\ WF_vars(DeferWaitCp)
    /\ \A c \in Chunks : WF_vars(Consume(c)) /\ WF_vars(ConsumeSend(c))
    /\ WF_vars(WriterRecv) /\ WF_vars(WriterChannelClosed) /\ WF_vars(WriterCtxDone)
    /\ WF_vars(WriterCreate) /\ WF_vars(WriterWrite) /\ WF_vars(WriterInsert)
    /\ WF_vars(CpTimerFlush) /\ WF_vars(CpCtxDone) /\ WF_vars(CpFinalFlush)

SpecLive == Init /\ [][Next]_vars /\ PipeFairness

\* the batch pipeline with the process killed and started again
CrashInit == PipeInit /\ RowsIdle /\ BinIdle /\ PurgeIdle /\ ContIdle /\ LockIdle /\ IngIdle

CrashNext ==
    \/ EqualStart \/ EqualStartFail \/ EqualApply \/ EqualLeaveLoop
    \/ DeferWaitPool \/ DeferClose \/ DeferWaitSql \/ DeferStop \/ DeferWaitCp
    \/ \E c \in Chunks : Consume(c)
    \/ \E c \in Chunks : ConsumeSend(c)
    \/ WriterRecv \/ WriterChannelClosed \/ WriterCtxDone
    \/ WriterCreate \/ WriterWrite \/ WriterInsert
    \/ CpTimerFlush \/ CpCtxDone \/ CpFinalFlush
    \/ Cancel
    \/ Restart

SpecCrash == CrashInit /\ [][CrashNext]_vars

\* the row reconciler on one chunk
RowsSpecInit == RowsInit /\ PipeIdle /\ BinIdle /\ PurgeIdle /\ ContIdle /\ LockIdle /\ IngIdle

SpecRows == RowsSpecInit /\ [][RowsNext]_vars

\* the bisector on one chunk
BinSpecInit == BinInit /\ PipeIdle /\ RowsIdle /\ PurgeIdle /\ ContIdle /\ LockIdle /\ IngIdle

SpecBin == BinSpecInit /\ [][BinNext]_vars

\* the stale-file purge of one start
PurgeSpecInit == PurgeInit /\ PipeIdle /\ RowsIdle /\ BinIdle /\ ContIdle /\ LockIdle /\ IngIdle

SpecPurge == PurgeSpecInit /\ [][PurgeNext]_vars

\* continuous validation of one table
ContSpecInit == ContInit /\ PipeIdle /\ RowsIdle /\ BinIdle /\ PurgeIdle /\ LockIdle /\ IngIdle

SpecCont == ContSpecInit /\ [][ContNext]_vars

\* continuous validation under cancellation: the clients insert single rows,
\* the downstream lags; every goroutine that can take a step eventually
\* takes it, and the select of retryFailedRows, which finds ctx.Done()
\* ready every time it is reached, eventually takes that case; the writes
\* of the clients, the cancellation and the failing queries are not forced
ContLiveInit == ContSpecInit /\ pkOffset = 0 /\ ~useBinlog /\ cUp = [k \in PkValues |-> 0]

ContLiveNext ==
    \/ \E k \in PkValues : UpstreamInsert(<<k>>)
    \/ IngestGetEvent \/ IngestGetEventErr \/ IngestContinue \/ IngestCtxDone
    \/ ProcessEvent \/ ProcessSend \/ TimerFire \/ TimerCase \/ TimerSend \/ ProcessCtxDone
    \/ Validate \/ ValidatePanic \/ ValidateCtxDone
    \/ RetryPass \/ RetryPanic \/ RetryAgain \/ RetryCtxDone
    \/ ContCancel

ContFairness ==
    /\ WF_vars(IngestGetEvent \/ IngestGetEventErr \/ IngestContinue)
    /\ WF_vars(IngestCtxDone)
    /\ WF_vars(ProcessEvent \/ ProcessSend \/ TimerCase \/ TimerSend)
    /\ WF_vars(TimerFire)
    /\ WF_vars(ProcessCtxDone)
    /\ WF_vars(Validate)
    /\ WF_vars(ValidateCtxDone)
    /\ WF_vars(RetryPass \/ RetryAgain)
    /\ SF_vars(RetryCtxDone)

SpecContLive == ContLiveInit /\ [][ContLiveNext]_vars /\ ContFairness

\* the accumulator alone: the upstream writes, the events reach
\* rowsEventProcessRoutine and validateGoRoutine takes every batch
AccNext ==
    \/ \E ks \in KeySeqs : UpstreamInsert(ks)
    \/ \E ks \in KeySeqs : UpstreamUpdate(ks)
    \/ \E ks \in KeySeqs : UpstreamDelete(ks)
    \/ IngestGetEvent
    \/ ProcessEvent \/ ProcessSend \/ TimerFire \/ TimerCase \/ TimerSend
    \/ Validate

SpecAcc == ContSpecInit /\ [][AccNext]_vars

\* validation alone: the upstream writes, the downstream follows, batches
\* are validated and failed rows are validated again; nothing is cancelled
\* and the primary key is the first column
ValSpecInit == ContSpecInit /\ pkOffset = 0

ValNext ==
    \/ \E ks \in KeySeqs : UpstreamInsert(ks)
    \/ \E ks \in KeySeqs : UpstreamUpdate(ks)
    \/ \E ks \in KeySeqs : UpstreamDelete(ks)
    \/ DownstreamSync
    \/ IngestGetEvent
    \/ ProcessEvent \/ ProcessSend \/ TimerFire \/ TimerCase \/ TimerSend
    \/ Validate
    \/ RetryPass \/ RetryAgain

SpecVal == ValSpecInit /\ [][ValNext]_vars

\* the lock of the Diff aggregate under the three goroutines
LockSpecInit == LockInit /\ PipeIdle /\ RowsIdle /\ BinIdle /\ PurgeIdle /\ ContIdle /\ IngIdle

SpecLock == LockSpecInit /\ [][LockNext]_vars

\* the ingest loop against the clock and the log files of the upstream
IngSpecInit == IngInit /\ PipeIdle /\ RowsIdle /\ BinIdle /\ PurgeIdle /\ ContIdle /\ LockIdle

SpecIng == IngSpecInit /\ [][IngNext]_vars

(***************************************************************************)
(* Properties of the batch pipeline.                                       *)
(***************************************************************************)
IsPrefix(a, b) == Len(a) <= Len(b) /\ \A i \in 1..Len(a) : a[i] = b[i]

\* the ChunkDMLs that were pushed and not yet inserted
InFlight == {sqlCh[i] : i \in 1..Len(sqlCh)} \cup (IF wdml = NoOut THEN {} ELSE {wdml})

\* C1: when the checkpoint file names the frontier f, every chunk up to f whose
\* ChunkDML carried statements has its fix-SQL file written and closed on disk
C1_FrontierFilesOnDisk ==
    cpFile # Nil =>
        \A c \in Chunks : (c <= cpFile.id /\ c \in hasSqls) => files[c] = "closed"

C1_Witness ==
    /\ cpFile # Nil /\ cpFile.id = 2
    /\ hasSqls = {1, 2}
    /\ files[1] = "closed" /\ files[2] = "closed"

\* C2: the deferred block of Equal runs wait-pool, close, wait-writer,
\* stop-signal, wait-checkpoint in this order, each after the one before it
\* completed: the channel is closed only when no task is running, the stop
\* signal is sent only when the channel is closed and writeSQLs has returned,
\* and Equal returns only when handleCheckpoints has returned
C2_ShutdownOrder ==
    /\ IsPrefix(deferLog, <<"waitPool", "close", "waitSql", "stop", "waitCp">>)
    /\ deferLog # <<>> => Busy = {}
    /\ chClosed => (Busy = {} /\ Len(deferLog) >= 2)
    /\ Len(deferLog) >= 3 => (chClosed /\ wpc = "returned")
    /\ stopSent => (chClosed /\ wpc = "returned" /\ Len(deferLog) >= 4)
    /\ pc = "done" => (stopSent /\ cppc = "returned" /\ Len(deferLog) = 5)

C2_Witness ==
    /\ pc = "done" /\ Len(deferLog) = 5
    /\ \A c \in Chunks : task[c] = "done"
    /\ inserted = Chunks

\* C3: df.cp.Insert is called with the node of a ChunkDML that has statements
\* only when that chunk's fix-SQL file has been written and closed
C3_FileClosedBeforeInsert ==
    [][\A c \in inserted' \ inserted :
          (wdml.dml.node.id = c /\ wdml.dml.sqls # <<>>) => files[c] = "closed"]_vars

C3_Witness ==
    \E n \in heap : n.id \in hasSqls /\ files[n.id] = "closed"

\* C4 as stated: the node of a pushed ChunkDML is Failed exactly when its sqls
\* is non-empty or the checksum stage returned an error
C4_FailedIffSqlsOrError ==
    \A it \in InFlight :
        (it.dml.node.state = "failed") <=> (it.dml.sqls # <<>> \/ it.ck = "error")

\* C4 amended: the node of a pushed ChunkDML that has statements, or whose
\* checksum stage returned an error, is Failed; a Failed node belongs to a
\* chunk whose checksum stage returned an error or compared unequal; with
\* exportFixSQL set the node is Failed exactly in these two cases, whether
\* or not row reconciliation emitted a statement
C4_FailedFollowsChecksum ==
    \A it \in InFlight :
        /\ (it.dml.sqls # <<>> \/ it.ck = "error") => it.dml.node.state = "failed"
        /\ it.dml.node.state = "failed" => it.ck \in {"error", "unequal"}
        /\ exportFixSQL =>
               ((it.dml.node.state = "failed") <=> it.ck \in {"error", "unequal"})

\* a Failed node without statements and without a checksum error is pushed
C4_Witness ==
    \E it \in InFlight :
        it.dml.node.state = "failed" /\ it.dml.sqls = <<>> /\ it.ck = "unequal"

\* C5: a pushed ChunkDML whose node is Success belongs to a chunk whose
\* checksum comparison found both sides equal
C5_SuccessMeansChecksumEqual ==
    \A it \in InFlight : it.dml.node.state = "success" => it.ck = "equal"

\* C6: after a kill and restart no fix-SQL file above the persisted frontier
\* is left in FixSQLDir, iteration resumes right after the frontier, and
\* writeSQLs never finds the file it is about to create
C6_ResumeIsClean ==
    /\ fatal # "repeat sql"
    /\ (restarts > 0 /\ pc = "start") =>
           /\ startRange = IdOf(cpFile)
           /\ \A c \in Chunks : c > startRange => files[c] = "none"
    /\ (pc = "iter" /\ inserted = {} /\ Busy = {} /\ \A c \in Chunks : task[c] = "none")
           => nextChunk = startRange + 1

\* C7: the node in the checkpoint file, and the store's current, end a run of
\* ChunkIDs that were all inserted; a pending node is ahead of a ChunkID that
\* has not arrived; the file is rewritten only when current has advanced
C7_Inv ==
    /\ \A c \in (startRange + 1)..current : c \in inserted
    /\ cpFile # Nil => cpFile.id <= current
    /\ \A n \in heap : n.id > current /\ n.id \in inserted

\* a step that rewrites the checkpoint file: current advanced to the node
\* saved, and that node is the newest one with all predecessors inserted
C7_Step ==
    (cpFile' # cpFile) =>
        /\ current' > current
        /\ cpFile'.id = current'
        /\ (current' + 1) \notin inserted

\* C7: the saved snapshot always ends a contiguous run of inserted ChunkIDs, a
\* node ahead of a missing predecessor is held back, and nothing is saved
\* when the store's current has not advanced
C7_SnapshotIsInsertedPrefix == []C7_Inv /\ [][C7_Step]_vars

\* every chunk was inserted and the last flush saved the newest node
C7_Witness ==
    /\ cpFile # Nil /\ cpFile.id = NChunks
    /\ current = NChunks
    /\ heap = {}
    /\ inserted = Chunks

(***************************************************************************)
(* Properties of the bisector.                                             *)
(***************************************************************************)
\* binSearch leaves the count test towards a recursion or a return only when
\* the two sub-range counts sum to the count of the range, and dies there
\* otherwise
C8_Step ==
    bpc = "decide" =>
        /\ bpc' \in {"entry", "returned"} => bR1.count + bR2.count = bCount
        /\ bR1.count + bR2.count # bCount => bpc' = "fatal count"

\* C8: every split binSearch goes on from has count1 + count2 = count; a split
\* whose counts do not sum to count is fatal before any recursion or return
C8_SplitCountsSum == [][C8_Step]_vars

\* binSearch recursed into a sub-range and returned it
C8_Witness ==
    /\ bpc = "returned"
    /\ bRes # bChunk
    /\ bR1.count + bR2.count > 0

(***************************************************************************)
(* Properties of the row reconciler.                                       *)
(***************************************************************************)
\* C9: when compareRows ran without an iterator error, executing its
\* statements on the downstream and running compareRows again gives
\* equal = true and no statement
C9_ReconcileIdempotent ==
    (rpc = "done" /\ ~rRes.err) =>
        /\ rRes2.equal
        /\ rRes2.sqls = <<>>
        /\ ~rRes2.err

C9_Witness ==
    /\ rpc = "done" /\ ~rRes.err
    /\ \E i, j \in 1..Len(rRes.sqls) :
           rRes.sqls[i].kind = "Replace" /\ rRes.sqls[j].kind # "Replace"
    /\ rRes2.equal

(***************************************************************************)
(* Properties of the stale-file purge.                                     *)
(***************************************************************************)
\* the path lies under a directory whose name starts with ".trash"
UnderTrashDir(relPath) ==
    LET parts == Split(relPath, "/")
    IN  \E i \in 1..(Len(parts) - 1) : SubSeq(parts[i], 1, Len(DotTrash)) = DotTrash

\* the three ':'-separated fields of a "*.sql" file name without its suffix
FieldsOf(relPath) ==
    LET name == BaseName(relPath)
    IN  SplitN(SubSeq(name, 1, Len(name) - Len(DotSql)), ":", 3)

\* C10: after removeSQLFiles(floor) returned without error, a file under a
\* ".trash" directory, a file that is not "*.sql" and a file whose name has
\* not three fields is where it was; of the others, those with a decoded
\* ChunkID <= floor are where they were and those with a decoded ChunkID
\* > floor are in the new trash directory and no longer where they were
C10_PurgeFrameEffect ==
    (ppc = "done" /\ ~pErr) =>
        /\ \A q \in pBefore :
             IF UnderTrashDir(q) \/ ~HasSuffix(BaseName(q), DotSql) \/ Len(FieldsOf(q)) # 3
             THEN q \in pFiles
             ELSE LET d == GetChunkIDFromSQLFileName(FieldsOf(q)[3])
                  IN  IF Compare(ChunkID(d.t, d.l, d.r, d.i, 0), pFloor) > 0
                      THEN q \notin pFiles /\ Join(TrashDir, q) \in pFiles
                      ELSE q \in pFiles
        /\ \A q \in pFiles \ pBefore : \E o \in pBefore : q = Join(TrashDir, o)

\* C16: an error of one chunk stays with that chunk.  A task whose checksum
\* stage failed leaves a Failed node with empty sqls, has not run bisection
\* or reconciliation and has reported the error; an error of bisection or of
\* reconciliation is reported too, and after a failed bisection reconciliation
\* still ran; the step changes nothing of Equal, of the other tasks or of the
\* process, and the task leaves its deferred send only by pushing its ChunkDML.
C16_Step ==
    \A c \in Chunks :
        /\ (task[c] = "run" /\ task'[c] = "send") =>
              LET o == dmlOf'[c]
              IN  /\ o.dml.node # Nil /\ o.dml.node.id = c
                  /\ o.ck = "error" =>
                        /\ o.dml.node.state = "failed"
                        /\ o.dml.sqls = <<>>
                        /\ o.calls = <<"checksum">>
                  /\ o.errs \subseteq o.meetErr
                  /\ "bin" \in o.errs => o.calls = <<"checksum", "bin", "rows">>
                  /\ pc' = pc /\ fatal' = fatal /\ nextChunk' = nextChunk
                  /\ \A d \in Chunks \ {c} : task'[d] = task[d] /\ dmlOf'[d] = dmlOf[d]
        /\ (task[c] = "send" /\ task'[c] # "send" /\ Alive') =>
              /\ task'[c] = "done"
              /\ sqlCh' = Append(sqlCh, Pushed(dmlOf[c]))

C16_ChunkErrorStaysLocal == [][C16_Step]_vars

\* chunk 1 failed in its checksum stage and its ChunkDML was pushed, and
\* Equal is about to dispatch chunk 2
C16_Witness ==
    /\ pc = "iter" /\ nextChunk = 2 /\ task[1] = "done"
    /\ \E i \in 1..Len(sqlCh) :
          /\ sqlCh[i].dml.node.id = 1 /\ sqlCh[i].ck = "error"
          /\ sqlCh[i].dml.node.state = "failed"
    /\ ENABLED EqualApply

\* C17: on a run that is not cancelled, when handleCheckpoints runs its final
\* flush the DML writer has returned and the node of every chunk that was
\* yielded has been inserted, so the snapshot of that flush stands at the last
\* yielded chunk and leaves no node pending.
C17_Step ==
    (cppc = "final" /\ cppc' = "returned" /\ ~cancelled) =>
        /\ stopSent
        /\ wpc = "returned"
        /\ \A c \in Chunks : task[c] # "none" => c \in inserted
        /\ current' = nextChunk - 1
        /\ heap' = {}

C17_FinalFlushAfterInserts == [][C17_Step]_vars

\* an uncancelled run over all chunks has ended and its final flush saved the
\* last chunk
C17_Witness ==
    /\ pc = "done" /\ ~cancelled /\ stopSent /\ cppc = "returned"
    /\ inserted = Chunks
    /\ cpFile # Nil /\ cpFile.id = NChunks

\* the ChunkDMLs of chunk c that are on sqlCh or in the hands of writeSQLs
Pending(c) ==
    Cardinality({i \in 1..Len(sqlCh) : sqlCh[i].dml.node.id = c})
        + (IF wdml # NoOut /\ wdml.dml.node.id = c THEN 1 ELSE 0)

\* C18: a chunk task leaves consume on every path with one ChunkDML of its
\* chunk and pushes exactly that; each pushed ChunkDML is on its way to
\* writeSQLs or was inserted, never both and never twice, and when an
\* uncancelled run has ended every one was inserted; an Empty chunk is pushed
\* with state Ignore and empty sqls and ran no checksum and no reconciliation.
C18_Inv ==
    /\ \A c \in Chunks :
          /\ task[c] = "send" =>
                /\ dmlOf[c].dml.node # Nil /\ dmlOf[c].dml.node.id = c
                /\ dmlOf[c].rtype = "Empty" =>
                      /\ dmlOf[c].dml.node.state = "ignore"
                      /\ dmlOf[c].dml.sqls = <<>>
                      /\ dmlOf[c].calls = <<>>
          /\ Pending(c) + (IF c \in inserted THEN 1 ELSE 0) = (IF task[c] = "done" THEN 1 ELSE 0)
    /\ (pc = "done" /\ ~cancelled) => \A c \in Chunks : task[c] = "done" => c \in inserted

C18_Step ==
    \A c \in Chunks :
        /\ (task[c] = "send" /\ task'[c] = "done") => sqlCh' = Append(sqlCh, Pushed(dmlOf[c]))
        /\ (c \notin inserted /\ c \in inserted') =>
              /\ wdml # NoOut /\ wdml.dml.node.id = c
              /\ Insert(heap, wdml.dml.node) = heap'

C18_OneDmlOneInsert == [](C18_Inv) /\ [][C18_Step]_vars

\* on an uncancelled run both chunks were pushed once and inserted once, the
\* first an Empty chunk with state Ignore, the second not
C18_Witness ==
    /\ ~cancelled /\ inserted = Chunks /\ sqlCh = <<>> /\ wdml = NoOut
    /\ \A c \in Chunks : task[c] = "done"
    /\ \E n \in heap : n.id = 1 /\ n.state = "ignore"
    /\ \E n \in heap : n.id = 2 /\ n.state = "failed"

(***************************************************************************)
(* Properties of continuous validation.                                    *)
(***************************************************************************)
\* the keys of a rows map whose rowChange carries primary key k
ChangesFor(rows, k) == {s \in RowKeys : rows[s] # Nil /\ rows[s].pk = <<Itoa(k)>>}

\* C11: the batch that validateGoRoutine received holds, for every key k
\* that a row event of the batch touched, exactly one rowChange, and its data,
\* kind and lastMeetTs are those of the last such event; it holds no
\* rowChange for a key that no event of the batch touched.
C11_OneChangePerKey ==
    \A k \in PkValues :
        LET for == ChangesFor(vBatch.rows, k)
            l == vBatch.last[k]
        IN  IF l = Nil THEN for = {}
            ELSE /\ Cardinality(for) = 1
                 /\ \A s \in for :
                        /\ vBatch.rows[s].data = l.data
                        /\ vBatch.rows[s].theType = l.theType
                        /\ vBatch.rows[s].lastMeetTs = l.lastMeetTs

\* an insert of a key and an update of the same key went into one batch,
\* which the validator holds
C11_Witness ==
    /\ vpc = "validate" /\ streamed = 2 /\ failedChanges = NoRows
    /\ binlog[1].theType = rowInsert /\ binlog[2].theType = rowUpdated
    /\ \E k \in PkValues :
          /\ KeyedRow(binlog[1].rows[1]).k = k
          /\ vBatch.last[k] # Nil
          /\ vBatch.last[k].lastMeetTs = 2
          /\ getRowCount(vBatch.rows) = 1

\* the change of a row event and both tables agree: the downstream holds the
\* state the event left, and no later write of the upstream changed the row
Settled(r) ==
    LET row == KeyedRow(r.data)
    IN  IF r.theType = rowDeleted THEN cUp[row.k] = 0 /\ cDown[row.k] = 0
        ELSE cUp[row.k] = row.v /\ cDown[row.k] = row.v

\* C12: a validation pass that runs while the downstream holds the state of
\* the last event on key k leaves k outside failedChanges, whatever the kind
\* of the event, the compare mode and the other keys of the pass (so k is
\* absent one retry pass after the downstream caught up), and a key enters
\* failedChanges only with a batch that carries an event on it.
C12_Step ==
    /\ (tpc = "pass" /\ tpc' = "wait") =>
          \A s \in RowKeys :
              (failedChanges[s] # Nil /\ Settled(failedChanges[s])) => failedChanges'[s] = Nil
    /\ (vpc = "validate" /\ vpc' = "select") =>
          \A s \in RowKeys :
              (vBatch.rows[s] # Nil /\ Settled(vBatch.rows[s])) => failedChanges'[s] = Nil
    /\ \A s \in RowKeys :
          (failedChanges[s] = Nil /\ failedChanges'[s] # Nil) =>
              (vpc = "validate" /\ vBatch.rows[s] # Nil)

C12_SettledKeyLeavesFailed == [][C12_Step]_vars

(***************************************************************************)
(* Properties of cancellation.                                             *)
(***************************************************************************)
\* C13: once ctx is cancelled while Equal runs, Equal returns (or the
\* process has died of a fatal error): no goroutine stays blocked on the
\* DML channel, the stop channel or a wait group.
C13_CancelledEqualReturns == cancelled ~> (pc = "done" \/ ~Alive)

\* C14: once writeSQLs has returned, cancelled or not, every ChunkDML that a
\* task pushed was consumed by it: none is left on sqlCh and the node of
\* every task that pushed was inserted.
C14_WriterDrainsBeforeExit ==
    wpc = "returned" =>
        /\ sqlCh = <<>>
        /\ \A c \in Chunks : task[c] = "done" => c \in inserted

\* the four loops of continuous validation have returned
AllReturned == ipc = "returned" /\ apc = "returned" /\ vpc = "returned" /\ tpc = "returned"

\* C15: once ctx is cancelled, each of IncrementalValidate,
\* rowsEventProcessRoutine, validateGoRoutine and retryFailedRows eventually
\* returns, whatever it was doing.
C15_CancelledLoopsReturn == cCancelled ~> (AllReturned \/ ~CAlive)

(***************************************************************************)
(* Properties of the bisection's cases                                     *)
(***************************************************************************)
\* C19: in binSearch on a range with count above SplitThreshold, once both
\* sub-range checksums are known and count1 + count2 = count, the pair
\* (isEqual1, isEqual2) decides the step: (true, true) is fatal, (false, false)
\* returns the current range, (false, true) recurses on range1 with count1,
\* (true, false) recurses on range2 with count2; with count <= SplitThreshold
\* the range is returned as it is and no checksum or midpoint is touched.
C19_Step ==
    /\ (bpc = "decide" /\ bpc' # "decide" /\ bR1.count + bR2.count = bCount) =>
          /\ bCount > SplitThreshold
          /\ (bR1.equal /\ bR2.equal) => bpc' = "fatal equal"
          /\ (~bR1.equal /\ ~bR2.equal) =>
                bpc' = "returned" /\ bRes' = <<bLo, bHi>>
          /\ (~bR1.equal /\ bR2.equal) =>
                /\ bpc' = "entry"
                /\ <<bLo', bHi'>> = <<bLo, bMid>>
                /\ bCount' = bR1.count
          /\ (bR1.equal /\ ~bR2.equal) =>
                /\ bpc' = "entry"
                /\ <<bLo', bHi'>> = <<bMid, bHi>>
                /\ bCount' = bR2.count
    /\ (bpc = "entry" /\ bpc' # "entry" /\ bCount <= SplitThreshold) =>
          /\ bpc' = "returned"
          /\ bRes' = <<bLo, bHi>>
          /\ UNCHANGED <<bLo, bHi, bMid, bR1, bR2, bCount>>

C19_PairDrivesRecursion == [][C19_Step]_vars

\* binSearch has recursed on range2 and, one level down, on range1, and has
\* handed back a sub-range because its count is within the threshold
C19_Witness ==
    /\ bpc = "returned"
    /\ bRes = <<bLo, bHi>>
    /\ bLo > bChunk[1] /\ bHi < bChunk[2]
    /\ bCount <= SplitThreshold

(***************************************************************************)
(* Properties of the range handed to row reconciliation                    *)
(***************************************************************************)
\* a row that differs between upstream and downstream: present on one side
\* only, or present on both with different content
RowDiffers(k) == bUp[k] # bDown[k]

ChunkKeys(r) == InRange(r[1], r[2])

\* the range handed over after a successful BinGenerate is the chunk, a
\* sub-range within the threshold or a sub-range whose halves both mismatched
C20_Shape ==
    /\ bIndex # "unique" => bInfo = bChunk
    /\ \/ bInfo = bChunk
       \/ bCount <= SplitThreshold
       \/ ~bR1.equal /\ ~bR2.equal

C20_Inv ==
    /\ (bInfo # Nil /\ bpc = "returned") =>
          /\ C20_Shape
          /\ ~bWritten =>
                /\ ChunkKeys(bInfo) \subseteq ChunkKeys(bChunk)
                /\ \A k \in ChunkKeys(bChunk) : RowDiffers(k) => k \in ChunkKeys(bInfo)
    /\ (bInfo # Nil /\ bpc \in {"error", "notcalled"}) => bInfo = bChunk

\* a recursion discards the other half only when its count and CRC were equal
C20_Step ==
    (bpc = "decide" /\ bpc' = "entry") =>
        /\ <<bLo', bHi'>> = <<bLo, bMid>> => bR2.equal
        /\ <<bLo', bHi'>> = <<bMid, bHi>> => bR1.equal

ExpectedFixes(U, D) ==
    {GenerateFixSQL("Insert", [k |-> k, v |-> U[k]], Nil) :
        k \in {x \in Keys : U[x] # 0 /\ D[x] = 0}}
    \cup {GenerateFixSQL("Delete", Nil, [k |-> k, v |-> D[k]]) :
        k \in {x \in Keys : U[x] = 0 /\ D[x] # 0}}
    \cup {GenerateFixSQL("Replace", [k |-> k, v |-> U[k]], [k |-> k, v |-> D[k]]) :
        k \in {x \in Keys : U[x] # 0 /\ D[x] # 0 /\ U[x] # D[x]}}

\* how many statements of sqls are of one of the kinds
CountKinds(sqls, kinds) == Cardinality({i \in 1..Len(sqls) : sqls[i].kind \in kinds})

\* C21: when both iterators delivered their rows, compareRows has emitted
\* exactly one INSERT per upstream-only key, one DELETE per downstream-only
\* key, one REPLACE per key on both sides with differing payload and nothing
\* for identical rows, and it returned equal = true exactly when it emitted
\* no statement.
C21_ExactFixes ==
    (rpc # "compare" /\ ~rRes.err) =>
        /\ {rRes.sqls[i] : i \in 1..Len(rRes.sqls)} = ExpectedFixes(rUp, rDown)
        /\ Len(rRes.sqls) = Cardinality(ExpectedFixes(rUp, rDown))
        /\ rRes.equal <=> rRes.sqls = <<>>

\* compareRows emitted an INSERT and a DELETE in one run
C21_Witness ==
    /\ rpc # "compare" /\ ~rRes.err
    /\ CountKinds(rRes.sqls, {"Insert"}) = 1
    /\ CountKinds(rRes.sqls, {"Delete"}) = 1

\* C22: every ChunkDML on the DML channel has rowAdd = number of INSERT and
\* REPLACE statements and rowDelete = number of DELETE and REPLACE statements
\* of its sqls, also when compareRows stopped on an iterator error after it
\* had emitted statements.
C22_CountsMatchSqls ==
    \A i \in 1..Len(sqlCh) :
        /\ sqlCh[i].dml.rowAdd = CountKinds(sqlCh[i].dml.sqls, {"Insert", "Replace"})
        /\ sqlCh[i].dml.rowDelete = CountKinds(sqlCh[i].dml.sqls, {"Delete", "Replace"})

(***************************************************************************)
(* Properties of the accumulator's batches                                 *)
(***************************************************************************)
\* the accumulator stands at a send exactly with a full accumulator ("send")
\* or after a timer case that found rows ("sendTimer")
C23_Inv ==
    /\ apc = "send" => getRowCount(accumulatedChanges) = BatchRowCount
    /\ apc = "sendTimer" => getRowCount(accumulatedChanges) \in 1..(BatchRowCount - 1)
    /\ apc = "select" => getRowCount(accumulatedChanges) < BatchRowCount

C23_Step ==
    \* a batch goes over pendingChangeCh: it is the accumulator, not empty and
    \* not larger than BatchRowCount; the accumulator starts again from empty
    \* and the timer runs again
    /\ vBatch' # vBatch /\ vBatch' # NoBatch =>
          /\ apc \in {"send", "sendTimer"}
          /\ vBatch'.rows = accumulatedChanges
          /\ getRowCount(vBatch'.rows) \in 1..BatchRowCount
          /\ ~timerFired'
          /\ apc = "sendTimer" => accumulatedChanges' = NoRows /\ apc' = "select"
          /\ apc = "send" =>
                accumulatedChanges' = ProcessRows(NoRows, NoLast, aEvent, aIdx).rows
    \* the timer case: a send is due exactly for a non-empty accumulator, and
    \* nothing is sent or changed for an empty one
    /\ apc = "select" /\ timerFired /\ ~timerFired' =>
          /\ apc' = "sendTimer" <=> getRowCount(accumulatedChanges) > 0
          /\ getRowCount(accumulatedChanges) = 0 =>
                apc' = "select" /\ UNCHANGED <<vBatch, accumulatedChanges>>
    \* the accumulator changes only by a row event or by a send
    /\ accumulatedChanges' # accumulatedChanges =>
          \/ apc = "select" /\ ipc = "send"
          \/ vBatch' # vBatch /\ vBatch' # NoBatch

\* C23: a batch is sent on pendingChangeCh exactly when the accumulated row
\* count reaches BatchRowCount while a row is processed, or when the timer
\* fires on a non-empty accumulator; a batch sent is never empty and never
\* larger than BatchRowCount, after a send the accumulator is empty and the
\* timer restarted, and a timer firing on an empty accumulator sends nothing.
C23_BatchSentWhenFullOrTimer == [](C23_Inv) /\ [][C23_Step]_vars

\* the validator holds a batch sent by the timer case while the accumulator,
\* empty again, waits with its timer running
C23_Witness ==
    /\ vpc = "validate"
    /\ getRowCount(vBatch.rows) = 1
    /\ apc = "select" /\ accumulatedChanges = NoRows /\ ~timerFired

(***************************************************************************)
(* Properties of the keys of accumulated rows                              *)
(***************************************************************************)
\* C24: wherever the primary-key column sits in the table, processEventRows
\* keys every kept row by the formatted values of its primary-key columns
\* joined with "-", keeps only after-images of update events, and never
\* indexes out of range while it builds the key.
C24_KeyedByPrimaryKey ==
    /\ cFatal # "index out of range"
    /\ \A s \in RowKeys :
          accumulatedChanges[s] # Nil =>
              LET r == accumulatedChanges[s]
              IN  /\ r.pk = <<Itoa(KeyedRow(r.data).k)>>
                  /\ s = StringsJoin(r.pk, <<"-">>)
                  /\ \E n \in 1..Len(binlog) :
                        /\ binlog[n].theType = r.theType
                        /\ \E i \in AfterIdx(binlog[n]) : binlog[n].rows[i] = r.data

(***************************************************************************)
(* Properties of the failure records                                       *)
(***************************************************************************)
\* C25: when validateGoRoutine has validated a batch, failedChanges holds for
\* every key of the batch a record exactly when the key failed, and that
\* record is the one of the failed set; the record of every key outside the
\* batch is as it was.
C25_Step ==
    (vpc = "validate" /\ vpc' = "select") =>
        LET all == vBatch.rows
            failed == validateTableChange(cUp, cDown, all)
        IN  \A s \in RowKeys :
                /\ all[s] # Nil =>
                      /\ failedChanges'[s] # Nil <=> failed[s] # Nil
                      /\ failedChanges'[s] = failed[s]
                /\ all[s] = Nil => failedChanges'[s] = failedChanges[s]

C25_FailedFollowsBatch == [][C25_Step]_vars

\* two batches failed one after the other: the record of the first batch's
\* key is still there beside the record the second batch installed
C25_Witness ==
    /\ vpc = "select"
    /\ \E s, t \in RowKeys :
          /\ failedChanges[s] # Nil /\ failedChanges[t] # Nil
          /\ failedChanges[s].lastMeetTs < failedChanges[t].lastMeetTs

(***************************************************************************)
(* Properties of the validation of a batch                                 *)
(***************************************************************************)
\* the primary key of a rowChange
PkOf(r) == KeyedRow(r.data).k

\* the payload insert/update validation reads upstream for a rowChange: the
\* row of the binlog event, or the row the upstream holds now; 0 for no row
UpPayload(r) == IF useBinlog THEN KeyedRow(r.data).v ELSE cUp[PkOf(r)]

\* the insert and update rowChanges of a rows map
InsertUpdateOf(rows) == {r \in ChangesOf(rows) : r.theType # rowDeleted}

\* the formatted keys of the changes sort like the primary keys
SortAgrees(changes) ==
    \A x, y \in changes : StringLess(x.pk[1], y.pk[1]) <=> PkOf(x) < PkOf(y)

\* a validation pass over rows has just ended: validateGoRoutine on its
\* batch or retryFailedRows on failedChanges
PassOver(rows) ==
    \/ vpc = "validate" /\ vpc' = "select" /\ rows = vBatch.rows
    \/ tpc = "pass" /\ tpc' = "wait" /\ rows = failedChanges

C26_Step ==
    \A rows \in {vBatch.rows, failedChanges} :
        PassOver(rows) =>
            \A r \in InsertUpdateOf(rows) :
                LET s == StringsJoin(r.pk, <<"-">>)
                    u == UpPayload(r)
                    d == cDown[PkOf(r)]
                IN  /\ (u # 0 /\ u # d) => failedChanges'[s] # Nil
                    /\ u = 0 => failedChanges'[s] = Nil
                    /\ (u = d /\ (~useBinlog \/ SortAgrees(InsertUpdateOf(rows)))) =>
                          failedChanges'[s] = Nil

DeletesOf(rows) == {r \in ChangesOf(rows) : r.theType = rowDeleted}

C27_Step ==
    \A rows \in {vBatch.rows, failedChanges} :
        PassOver(rows) =>
            \A r \in DeletesOf(rows) :
                LET s == StringsJoin(r.pk, <<"-">>)
                IN  /\ failedChanges'[s] # Nil <=> cDown[PkOf(r)] # 0
                    /\ failedChanges'[s] # Nil => failedChanges'[s] = rows[s]

\* C27: delete validation of a batch reports exactly the keys of the batch
\* whose row the downstream still returns, never a key whose row is absent
\* downstream, and the failure record of a reported key is the key's
\* rowChange of the batch.
C27_DeleteFailures == [][C27_Step]_vars

\* a delete was validated before the downstream applied it: its record is
\* in failedChanges while the downstream still has the row
C27_Witness ==
    /\ vpc = "select"
    /\ \E s \in RowKeys :
          /\ failedChanges[s] # Nil
          /\ failedChanges[s].theType = rowDeleted
          /\ cDown[PkOf(failedChanges[s])] # 0
          /\ cUp[PkOf(failedChanges[s])] = 0

(***************************************************************************)
(* Properties of the lock of the Diff aggregate.                           *)
(***************************************************************************)
\* a step that changes df.failedChanges or df.failedRowCnt, or lowers
\* df.pendingRowCnt, is taken by the goroutine that holds the writer lock;
\* df.pendingRowCnt is raised by rowsEventProcessRoutine, which never holds it
C28_Step ==
    /\ (\/ lFailedChanges' # lFailedChanges
        \/ failedRowCnt' # failedRowCnt
        \/ pendingRowCnt' < pendingRowCnt)
          => dfMu.writer = lActor' /\ dfMu' = dfMu
    /\ pendingRowCnt' > pendingRowCnt
          => lActor' = "processor" /\ dfMu.writer # "processor"

\* the writer lock is held exactly over a pass of the validator or of the
\* retry, the two passes never overlap, and the summary reads
\* df.failedChanges holding the reader lock with no writer
C28_Inv ==
    /\ lvpc \in ValidatorPass <=> dfMu.writer = "validator"
    /\ ltpc \in RetryPassPcs <=> dfMu.writer = "retry"
    /\ ~(lvpc \in ValidatorPass /\ ltpc \in RetryPassPcs)
    /\ ltpc = "summary" <=> "retry" \in dfMu.readers
    /\ dfMu.readers # {} => dfMu.writer = "none"

\* C28: every change of failedChanges and failedRowCnt and every decrement of
\* pendingRowCnt is made by the holder of the writer lock, the increment of
\* pendingRowCnt is made by the event processor without the lock, the
\* validator pass and the retry pass hold the writer lock from start to end
\* and never overlap, and the summary reads failedChanges under the reader lock
C28_LockedPasses == [](C28_Inv) /\ [][C28_Step]_vars

\* C28 as stated: every change of failedChanges, pendingRowCnt and
\* failedRowCnt is made by the holder of the writer lock
C28_AllMutationsLocked ==
    [][(\/ lFailedChanges' # lFailedChanges
        \/ failedRowCnt' # failedRowCnt
        \/ pendingRowCnt' # pendingRowCnt) => dfMu.writer = lActor']_vars

\* the validator is inside its pass with failures recorded from an earlier
\* batch, the retry waits at df.Lock(), and the processor has counted a new
\* row meanwhile
C28_Witness ==
    /\ lvpc = "sub" /\ ltpc = "lock" /\ dfMu.writer = "validator"
    /\ lFailedChanges # {} /\ lAcc # {}
    /\ pendingRowCnt = Cardinality(lChange) + Cardinality(lAcc)

(***************************************************************************)
(* Properties of the ingest loop.                                          *)
(***************************************************************************)
\* a row event stands at the send on rowsEventChan no earlier than its
\* timestamp plus defaultDelay
C29_Inv ==
    gpc = "send" => now >= (gEvent.ts + DefaultDelay) * TicksPerSecond

\* an event read with lag below defaultDelay is slept on for defaultDelay - lag
\* and handled only when that time is over; one read with more lag is handled
\* at once
C29_Step ==
    /\ (gpc = "read" /\ gStream' # gStream /\ gpc' # "reopen") =>
          LET e == NextEvent
          IN  IF Lag(e) < DefaultDelay * TicksPerSecond
              THEN /\ gpc' = "sleep" /\ gEvent' = e
                   /\ gWake' = now + (DefaultDelay * TicksPerSecond - Lag(e))
                   /\ gHandled' = gHandled /\ latestPos' = latestPos
              ELSE gpc' \in {"read", "send"}
    /\ (gpc = "sleep" /\ gpc' # "sleep") => now >= gWake
    /\ gRouted' # gRouted =>
          \E i \in gRouted' :
              /\ gRouted' = gRouted \cup {i}
              /\ now >= (gLog[i].ts + DefaultDelay) * TicksPerSecond

\* C29: no row event is routed to rowsEventChan earlier than its timestamp
\* plus defaultDelay: an event read with lag below defaultDelay is slept on
\* for defaultDelay - lag before it is handled, an event read with at least
\* that lag is handled without a sleep
C29_RoutedAfterDelay == [](C29_Inv) /\ [][C29_Step]_vars

\* a row event that was slept on stands at the send exactly defaultDelay
\* after its timestamp, after an earlier row event was routed
C29_Witness ==
    /\ gpc = "send" /\ gWake = now
    /\ now = (gEvent.ts + DefaultDelay) * TicksPerSecond
    /\ gRouted # {}

\* C30: after a fatal read error the syncer is reopened at the last-known
\* position, and the reopened stream resumes at the first event after the
\* last one the loop handled, so that no event is skipped or read again
C30_ResumesAfterLastHandled ==
    [][(gpc = "reopen" /\ gpc' = "read") => gStream'.at = gHandled]_vars

(***************************************************************************)
(* Properties of the recursion of the bisector.                            *)
(***************************************************************************)
\* C31: every recursive call of binSearch is made on a half whose row count
\* is strictly smaller than the count of the range that was split
C31_RecursionShrinks ==
    [][(bpc = "decide" /\ bpc' = "entry") => bCount' < bCount]_vars

(***************************************************************************)
(* Properties of the close of the DML channel.                             *)
(***************************************************************************)
\* how many times close(df.sqlCh) was executed
Closes == Cardinality({i \in 1..Len(deferLog) : deferLog[i] = "close"})

\* no task has met the closed channel; while the channel is closed every
\* task that was submitted has pushed and Equal submits no more
C32_Inv ==
    /\ fatal # "send on closed channel"
    /\ Closes = IF chClosed THEN 1 ELSE 0
    /\ chClosed =>
          /\ \A c \in Chunks : task[c] \in {"none", "done"}
          /\ pc \notin {"start", "iter", "waitPool"}
    /\ pc = "done" => chClosed

\* the channel is closed by the close step only, stays closed, and takes a
\* ChunkDML only while it is open
C32_Step ==
    /\ chClosed => chClosed'
    /\ (~chClosed /\ chClosed') => (pc = "close" /\ Busy = {})
    /\ (\E c \in Chunks : task[c] = "send" /\ task'[c] = "done") => ~chClosed /\ ~chClosed'
    /\ Len(sqlCh') > Len(sqlCh) => ~chClosed

\* C32: no chunk task sends on df.sqlCh after it was closed and the channel
\* is closed once: in every interleaving, with the chunk iterator failing or
\* the context cancelled, close(df.sqlCh) is executed only after every
\* submitted chunk task has made its deferred push, and Equal returns only
\* with the channel closed
C32_CloseAfterAllPushes == [](C32_Inv) /\ [][C32_Step]_vars

\* the context was cancelled and the loop of Equal was left before the last
\* chunk; the channel is closed with one task's push made and the other chunk
\* never submitted
C32_Witness ==
    /\ chClosed /\ cancelled /\ nextChunk <= NChunks
    /\ \E c \in Chunks : task[c] = "done"
    /\ \E c \in Chunks : task[c] = "none"

(***************************************************************************)
(* Properties of the pending-row counter.                                  *)
(***************************************************************************)
\* the statements of validateGoRoutine from the receive of a batch up to
\* df.pendingRowCnt.Sub
BeforeSub == {"lock", "validate", "update", "store", "sub"}

\* the rows of the batch that was sent and is not yet counted as validated
Unvalidated == IF lvpc \in BeforeSub THEN Cardinality(lChange) ELSE 0

C33_Inv ==
    /\ pendingRowCnt >= 0
    /\ pendingRowCnt = Cardinality(lAcc) + Unvalidated

\* the counter goes up by one exactly when a key new to the accumulator is
\* added, and goes down by the row count of the batch at the end of its pass
C33_Step ==
    /\ pendingRowCnt' > pendingRowCnt =>
          /\ pendingRowCnt' = pendingRowCnt + 1
          /\ Cardinality(lAcc') = Cardinality(lAcc) + 1
    /\ (lapc = "select" /\ lAcc' = lAcc /\ lvpc' = lvpc) => pendingRowCnt' = pendingRowCnt
    /\ pendingRowCnt' < pendingRowCnt =>
          /\ lvpc = "sub" /\ lvpc' = "unlock"
          /\ pendingRowCnt' = pendingRowCnt - Cardinality(lChange)

\* C33: pendingRowCnt is never negative and equals the number of rows in the
\* accumulator plus the rows of the batch that was sent on pendingChangeCh
\* and is not yet validated; it is incremented once per new key added to the
\* accumulator, not per event, and decremented by the row count of each
\* validated batch
C33_PendingCount == [](C33_Inv) /\ [][C33_Step]_vars

\* a full batch is in the validator's pass and a row of a later event is in
\* the accumulator
C33_Witness ==
    /\ lvpc = "validate" /\ Cardinality(lChange) = BatchRowCount
    /\ lAcc # {}
    /\ pendingRowCnt = BatchRowCount + Cardinality(lAcc)

(***************************************************************************)
(* Properties of the retry pass.                                           *)
(***************************************************************************)
C34_Step ==
    (tpc = "pass" /\ tpc' = "wait") =>
        /\ \A s \in RowKeys :
              failedChanges'[s] # Nil =>
                  /\ failedChanges[s] # Nil
                  /\ failedChanges'[s] = failedChanges[s]
        /\ failedRowCnt' = Cardinality({s \in RowKeys : failedChanges'[s] # Nil})

\* C34: a retry pass adds no failure: the keys of failedChanges after the
\* pass are among the keys before it, each record that remains is the record
\* that was there, and failedRowCnt is the number of records that remain
C34_RetryOnlyRemoves == [][C34_Step]_vars

\* after a retry pass one failure remains and is counted, while the row of
\* another key is the same on both sides
C34_Witness ==
    /\ tpc = "wait" /\ vpc = "select"
    /\ failedRowCnt = 1 /\ getRowCount(failedChanges) = 1
    /\ \E s \in RowKeys :
          /\ failedChanges[s] # Nil
          /\ cUp[PkOf(failedChanges[s])] # cDown[PkOf(failedChanges[s])]
    /\ \E k \in PkValues : cUp[k] # 0 /\ cUp[k] = cDown[k] /\ failedChanges[Itoa(k)] = Nil

====
